---- MODULE Spec2Model ----
(***************************************************************************)
(* Model of the news batch job of src/cron/main.py (job, process_article,  *)
(* generate_character_image, generate_video) together with the two remote  *)
(* task clients it drives: RunningHubService (src/cron/                    *)
(* runninghub_service.py) and DIDService (src/cron/did_service.py).        *)
(*                                                                         *)
(* The program is sequential: one program counter `pc` walks through job,  *)
(* the per-article pipeline and the polling loops.  Every remote call is   *)
(* a nondeterministic choice over the answers the remote side can give.    *)
(***************************************************************************)
EXTENDS Integers, Sequences, FiniteSets, TLC

\* ---- bounds of the model ------------------------------------------------
MaxArticles == 2    \* at most this many articles are returned by get_news
MaxAttempts == 2    \* max_attempts / max_retries is drawn from 0..MaxAttempts
MaxOutputs  == 2    \* longest output list returned by /task/openapi/outputs

\* ---- Python values --------------------------------------------------------
None      == "None"        \* Python None
NoneTuple == "NoneTuple"   \* the tuple (None, None)
Path      == "path"        \* a non-empty path string

\* Python truthiness: None is falsy, a 2-tuple and a non-empty str are truthy.
Truthy(v) == v # None

IsPathLike_any(v) == TRUE
\* open(v, 'rb') and v.lower() work on a str and raise on a tuple or None.
IsPathLike(v) == v = Path

Stages == {"text", "image", "audio", "video", "insert"}

MaxVocab == 4       \* longest vocab list the LLM answers with
VocabSlots == 3     \* vocab_word1..3 / vocab_explanation1..3 of News

\* The vocab entries of an answer, in the order of the answer: entry k stands
\* for the dict {"word": ..., "explanation": ...} at index k - 1.
VocabPool == [k \in 1..MaxVocab |-> k]

\* main.py:138 and 164  the six emotions the prompt asks for.
Emotions == {"happy", "excited", "surprised", "curious", "proud", "thoughtful"}
\* What the LLM can put into "emotion": one of the six, or something else.
EmotionAnswers == {"happy", "thoughtful", "grumpy"}

HasVocabSlots_any(vocab) == TRUE
\* main.py:348-357  generate_audio_content reads vocab_words[0..2]; a list
\* with fewer entries raises IndexError.
HasVocabSlots(vocab) == Len(vocab) >= VocabSlots

News_vocabSwapped(article, vocab, audio, image, video) ==
    [article |-> article,
     vocab_word1 |-> vocab[1], vocab_word2 |-> vocab[3], vocab_word3 |-> vocab[2],
     audio_path |-> audio, image_path |-> image, video_path |-> video]
\* main.py:950-964  the News object: the article's title and description
\* (the article itself here), the first three vocab entries in order (word
\* and explanation of an entry go together) and the three paths.
News(article, vocab, audio, image, video) ==
    [article |-> article,
     vocab_word1 |-> vocab[1], vocab_word2 |-> vocab[2], vocab_word3 |-> vocab[3],
     audio_path |-> audio, image_path |-> image, video_path |-> video]

NeedsAudioFile_rhOnly(svc, tts) == svc = "runninghub"
\* main.py:905  service == "runninghub" or (service == "did" and not
\* os.getenv('USE_DID_TEXT_TO_SPEECH'))
NeedsAudioFile(svc, tts) == svc = "runninghub" \/ (svc = "did" /\ ~tts)

OnStageFailure_abort(stage) == "commit"
OnStageFailure_retry(stage) == stage
\* Where control goes when a stage of process_article fails: the function
\* returns None (directly or through its except clause) and job's for loop
\* goes on.
OnStageFailure(stage) == "ret_none"

\* ---- remote answers -------------------------------------------------------
\* What a POST /task/openapi/status can produce: a transport error, a body
\* that json.loads rejects, or an HTTP status with a JSON body {code, data}.
RHStatusRaw ==
    [http : {"neterr", "unparsable"}, code : {0}, data : {""}]
    \cup [http : {"200", "500"}, code : {0, 1}, data : {"SUCCESS", "FAILED", "RUNNING"}]

NoResponse == [none |-> TRUE, code |-> 0, data |-> ""]

get_task_status_raise(raw) ==
    IF raw.http = "200" THEN [none |-> FALSE, code |-> raw.code, data |-> raw.data]
    ELSE [none |-> FALSE, code |-> 1, data |-> ""]
\* RunningHubService.get_task_status: the parsed body on HTTP 200, None on
\* any other status and on every exception.
get_task_status(raw) ==
    IF raw.http = "200" THEN [none |-> FALSE, code |-> raw.code, data |-> raw.data]
    ELSE NoResponse

RHBranch_errorContinues(resp) ==
    IF resp.none THEN "retry"
    ELSE IF resp.code = 0 /\ resp.data = "SUCCESS" THEN "success"
    ELSE IF resp.code = 0 /\ resp.data = "FAILED" THEN "failed"
    ELSE "retry"
RHBranch_failedContinues(resp) ==
    IF resp.none THEN "retry"
    ELSE IF resp.code = 0 /\ resp.data = "SUCCESS" THEN "success"
    ELSE IF resp.code = 0 THEN "retry"
    ELSE "error"
\* The if/elif chain of wait_for_task's loop body.
RHBranch(resp) ==
    IF resp.none THEN "retry"
    ELSE IF resp.code = 0 /\ resp.data = "SUCCESS" THEN "success"
    ELSE IF resp.code = 0 /\ resp.data = "FAILED" THEN "failed"
    ELSE IF resp.code = 0 THEN "retry"
    ELSE "error"

\* Entries of an output list: a dict with or without a fileUrl.
Entries == {"E_url", "E_nourl"}
FileUrl(e) == IF e = "E_url" THEN "url" ELSE None

RECURSIVE SeqsUpTo(_, _)
SeqsUpTo(S, n) ==
    IF n = 0 THEN {<<>>}
    ELSE LET shorter == SeqsUpTo(S, n - 1)
         IN  shorter \cup {Append(s, e) : s \in {t \in shorter : Len(t) = n - 1}, e \in S}

\* What a POST /task/openapi/outputs can produce.
RHOutputsRaw == [ok : BOOLEAN, data : SeqsUpTo(Entries, MaxOutputs)]

\* RunningHubService.get_task_outputs: the data list when the call succeeded
\* with code 0 and the list is not empty, None otherwise.  None is modelled
\* as the empty sequence (both are falsy for the caller).
get_task_outputs(raw) == IF raw.ok THEN raw.data ELSE <<>>

FirstOutput_last(outs) == outs[Len(outs)]
\* runninghub_service.py:303  return outputs[0]
FirstOutput(outs) == outs[1]

\* What a GET /talks/{id} can produce.
DIDStatusRaw ==
    [http : {"neterr", "unparsable"}, status : {""}, result_url : {None}]
    \cup [http : {"200", "500"}, status : {"done", "error", "rejected", "started"},
          result_url : {None, "url"}]

NoStatus == [none |-> TRUE, status |-> "", result_url |-> None]

\* DIDService.get_talk_status: the JSON body on HTTP 200, None otherwise.
get_talk_status(raw) ==
    IF raw.http = "200"
    THEN [none |-> FALSE, status |-> raw.status, result_url |-> raw.result_url]
    ELSE NoStatus

DIDBranch_rejectedContinues(st) ==
    IF st.none THEN "retry"
    ELSE IF st.status = "done" THEN "done"
    ELSE IF st.status = "error" THEN "failed"
    ELSE "retry"
\* The if/elif chain of the polling loop of DIDService.generate_video.
DIDBranch(st) ==
    IF st.none THEN "retry"
    ELSE IF st.status = "done" THEN "done"
    ELSE IF st.status \in {"error", "rejected"} THEN "failed"
    ELSE "retry"

RangeExhausted_offByOne(a, m) == a > m
\* for attempt in range(max_attempts): the loop ends when attempt reaches it.
RangeExhausted(a, m) == a >= m

\* ---- state ----------------------------------------------------------------
VARIABLES
    service,              \* job(service=...): "runninghub" or "did"
    image_service,        \* job(image_service=...): "runninghub" or "gemini"
    use_tts,              \* os.getenv('USE_DID_TEXT_TO_SPEECH') is set
    max_attempts,         \* max_attempts of wait_for_task / max_retries of D-ID
    pc,                   \* position of the program
    articles,             \* number of articles get_news returned
    idx,                  \* position of job's for loop (1-based)
    successful_articles,  \* job's counter
    processed,            \* per article: how often process_article ran on it
    result,               \* per article: what process_article returned
    anyFail,              \* per article: some stage of it failed
    pending,              \* News objects added to the session, not committed
    db,                   \* committed rows of the news table
    insert_failed,        \* article whose INSERT made the commit fail, 0 if none
    vocab_ok,             \* alien_data['vocab'] has the three entries read later
    seg_vocab,            \* alien_data['vocab']: the list of vocab entries
    seg_emotion,          \* alien_data['emotion']
    image_path,           \* locals of the running process_article
    audio_path,
    video_path,
    video_request,        \* what generate_video was called with: audio / text
    stages,               \* stages started for the current article, in order
    res,                  \* per stage of the current article: none / ok / fail
    calls,                \* external generation calls made for the article
    w_backend,            \* the awaited task's backend: "rh" or "did"
    attempt,              \* loop variable of the polling loop (0-based)
    polls,                \* status checks made for the awaited task
    lastRaw,              \* what the last status check produced
    outputs_fetched,      \* calls of get_task_outputs for the awaited task
    w_outputs,            \* what get_task_outputs returned
    w_end,                \* how the wait ended
    w_result,             \* what the wait returned
    news_rows,            \* api: ids of the rows of the news table
    story_rows,           \* api: rows of the stories table (id, date, timestamp)
    api_req,              \* api: the last request served, and how the database did
    api_status,           \* api: HTTP status of the last response
    api_items,            \* api: ids of the records of the last response, in order
    rows_before,          \* api: news_rows when the last request arrived
    st_pc,                \* story: position of generate_adventure_story_with_images
    st_runs,              \* story: runs started
    scene_i,              \* story: loop variable of generate_scene_images_and_audio
    attempted,            \* story: scenes generate_scene_image was called for, in order
    img_res,              \* story: per scene, what generate_scene_image returned
    aud_res,              \* story: per scene, what generate_audio returned
    scene_images,         \* story: the list scene_images (a path is its scene's number)
    audio_paths,          \* story: the list audio_paths
    stories,              \* story: committed rows of table stories
    scenes,               \* story: committed rows of table scenes
    tx_stories,           \* story: story rows of the open transaction
    tx_scenes,            \* story: scene rows of the open transaction
    story_id,             \* story: cursor.lastrowid after the story INSERT
    save_i,               \* story: loop variable of save_story_to_db
    scene_keys,           \* story: the i with 'scene{i}' in story_data
    call_scenes,          \* story: scene rows the current save_story_to_db call inserted
    save_result,          \* story: how save_story_to_db ended
    fn_args,              \* function under study: its arguments and the answers it gets
    fn_ret                \* function under study: what it returned and what it did

cfgVars  == <<service, image_service, use_tts, max_attempts>>
jobVars  == <<articles, idx, successful_articles, processed, result, anyFail,
              pending, db, insert_failed>>
artVars  == <<vocab_ok, seg_vocab, seg_emotion, image_path, audio_path, video_path,
              video_request, stages, res, calls>>
waitVars == <<w_backend, attempt, polls, lastRaw, outputs_fetched, w_outputs,
              w_end, w_result>>
newsVars == <<cfgVars, pc, jobVars, artVars, waitVars>>
apiVars  == <<news_rows, story_rows, api_req, api_status, api_items, rows_before>>
storyVars == <<st_pc, st_runs, scene_i, attempted, img_res, aud_res, scene_images,
               audio_paths, stories, scenes, tx_stories, tx_scenes, story_id,
               save_i, scene_keys, call_scenes, save_result>>
fnVars == <<fn_args, fn_ret>>
vars == <<newsVars, apiVars, storyVars, fnVars>>

NoRaw == [http |-> "none", code |-> 0, data |-> "", status |-> "", result_url |-> None]
RHRawOf(raw) == [http |-> raw.http, code |-> raw.code, data |-> raw.data,
                 status |-> "", result_url |-> None]
DIDRawOf(raw) == [http |-> raw.http, code |-> 0, data |-> "",
                  status |-> raw.status, result_url |-> raw.result_url]

FreshStages == [s \in Stages |-> "none"]
FreshCalls  == [llm |-> 0, tts |-> 0, img |-> 0, vid |-> 0]

\* Local state of a process_article call that has not started a stage yet.
ArticleFresh ==
    /\ vocab_ok' = TRUE
    /\ seg_vocab' = <<>>
    /\ seg_emotion' = None
    /\ image_path' = None
    /\ audio_path' = None
    /\ video_path' = None
    /\ video_request' = None
    /\ stages' = <<>>
    /\ res' = FreshStages
    /\ calls' = FreshCalls

\* No task is being awaited.
WaitIdle ==
    /\ w_backend' = "rh"
    /\ attempt' = 0
    /\ polls' = 0
    /\ lastRaw' = NoRaw
    /\ outputs_fetched' = 0
    /\ w_outputs' = <<>>
    /\ w_end' = "idle"
    /\ w_result' = None

\* A task was submitted and the polling loop is entered.
WaitStart(backend) ==
    /\ w_backend' = backend
    /\ attempt' = 0
    /\ polls' = 0
    /\ lastRaw' = NoRaw
    /\ outputs_fetched' = 0
    /\ w_outputs' = <<>>
    /\ w_end' = "pending"
    /\ w_result' = None

\* No function is under study.
NoCall == [fn |-> "none"]
FnIdle ==
    /\ fn_args = NoCall
    /\ fn_ret = NoCall

\* ---- the read API (src/api/main.py): values --------------------------------
MaxRows == 21       \* the news table starts with 0..MaxRows rows
MaxNewsId == 3      \* DELETE /news/{id} is called with an id of 1..MaxNewsId
MaxStoryRows == 4   \* the stories table the API reads is a subset of this many rows
LimitSlack == 1     \* ?limit= is drawn from -LimitSlack..LimitCap+LimitSlack

LimitCap == 20      \* min(limit, 20)
DefaultLimit == 20  \* limit: Optional[int] = 20

Dates == {"20250101", "20250102", "20250103"}
LimitInputs == (0 - LimitSlack)..(LimitCap + LimitSlack)

Min(a, b) == IF a <= b THEN a ELSE b

\* Exceptions in flight; NoExc is "nothing was raised".
NoExc == [kind |-> "none", status |-> "none"]
DBError == [kind |-> "SQLAlchemyError", status |-> "none"]
HTTPException(status) == [kind |-> "HTTPException", status |-> status]

\* 'except Exception' matches whatever was raised, HTTPException included.
IsException(e) == e.kind # "none"

\* delete_news: except Exception as e: db.rollback(); raise HTTPException(500)
delete_news_except(e) == HTTPException("500")

\* get_scenes_by_date, inner try: 'except HTTPException: raise', then
\* 'except Exception: raise HTTPException(500)'.
scenes_inner_except(e) ==
    IF e.kind = "HTTPException" THEN e ELSE HTTPException("500")

\* get_scenes_by_date, outer try: except Exception: raise HTTPException(500)
scenes_outer_except(e) == HTTPException("500")

\* The status the client receives.
StatusOf(e) == IF IsException(e) THEN e.status ELSE "200"

\* limit = min(limit, 20) if limit else 20
get_news_limit(limit) == IF limit # 0 THEN Min(limit, LimitCap) ELSE LimitCap

\* Query.limit(n).all() on SQLite: a negative LIMIT is no limit at all.
SqlLimit(rows, n) == IF n < 0 THEN rows ELSE SubSeq(rows, 1, Min(n, Len(rows)))

RECURSIVE SortDesc(_)
SortDesc(S) ==
    IF S = {} THEN <<>>
    ELSE LET m == CHOOSE x \in S : \A y \in S : y <= x
         IN  <<m>> \o SortDesc(S \ {m})

\* News.created_at defaults to the time of the INSERT, ids are handed out in
\* the order of the INSERTs: a row's creation time is ordered as its id.
CreatedAt(id) == id

\* order_by(desc(News.created_at)) over rows given by their ids
OrderByCreatedAtDesc(ids) ==
    LET keys == SortDesc({CreatedAt(i) : i \in ids})
    IN  [k \in 1..Len(keys) |-> CHOOSE i \in ids : CreatedAt(i) = keys[k]]

\* Rows the stories table can hold when the API reads it.
StoryPool ==
    {[id |-> k, date |-> IF k <= 2 THEN "20250101" ELSE "20250102", timestamp |-> k] :
        k \in 1..MaxStoryRows}

\* filter(Story.date == date).order_by(desc(Story.timestamp))
StoriesOfDate(rows, date) ==
    LET found == {s \in rows : s.date = date}
        keys == SortDesc({s.timestamp : s \in found})
    IN  [k \in 1..Len(keys) |-> CHOOSE s \in found : s.timestamp = keys[k]]

DeleteRow_others(rows, news_id) == {news_id} \cap rows
\* db.delete(news_item); db.commit()
DeleteRow(rows, news_id) == rows \ {news_id}

\* A request as it was served: its parameters, and db_ok: the database did
\* what the handler asked of it.
ApiReq(op, news_id, limit, omitted, date, latest_only, db_ok) ==
    [op |-> op, news_id |-> news_id, limit |-> limit, omitted |-> omitted,
     date |-> date, latest_only |-> latest_only, db_ok |-> db_ok]
NoReq == ApiReq("none", 0, 0, FALSE, "", FALSE, TRUE)

\* No request has been served.
ApiIdle ==
    /\ news_rows = {}
    /\ story_rows = {}
    /\ api_req = NoReq
    /\ api_status = "none"
    /\ api_items = <<>>
    /\ rows_before = {}

\* ---- the story generator (src/cron/story.py): values -----------------------
MaxStoryRuns == 1      \* runs of generate_adventure_story_with_images
MaxPriorStories == 1   \* stories already in the database at the start

NumScenes == 4         \* for i in range(1, 5)
SceneNumbers == 1..NumScenes
NoAudio == 0           \* audio_path None; a real path is its scene's number

\* story_data as the LLM produced it: all scene keys, or one of them missing.
StoryKeySets == {SceneNumbers, SceneNumbers \ {2}, SceneNumbers \ {NumScenes}}

\* The scene rows of a story whose run had no failure.
FullStoryScenes(k) ==
    {[id |-> NumScenes * (k - 1) + i, story_id |-> k, scene_number |-> i,
      image |-> i, audio |-> i] : i \in SceneNumbers}

\* INTEGER PRIMARY KEY AUTOINCREMENT: one more than the largest id in use.
lastrowid(rows) ==
    IF rows = {} THEN 1
    ELSE (CHOOSE m \in {r.id : r \in rows} : \A r \in rows : r.id <= m) + 1

Autocommit_on == TRUE
\* sqlite3.connect(db_path): statements run in a transaction until commit().
Autocommit == FALSE

AfterSceneFailure_abort(i) == NumScenes + 1
\* else: print("Failed to generate image ..."): the loop goes on with i + 1.
AfterSceneFailure(i) == i + 1

SceneRow_sameNumber(id, sid, i, images, audios) ==
    [id |-> id, story_id |-> sid, scene_number |-> 1, image |-> images[i],
     audio |-> IF i <= Len(audios) THEN audios[i] ELSE NoAudio]
\* INSERT INTO scenes (story_id, scene_number, ..., image_path, audio_path)
\* VALUES (story_id, i, ..., scene_images[i-1], audio_path)
SceneRow(id, sid, i, images, audios) ==
    [id |-> id, story_id |-> sid, scene_number |-> i, image |-> images[i],
     audio |-> IF i <= Len(audios) THEN audios[i] ELSE NoAudio]

FreshScenes == [i \in SceneNumbers |-> "none"]

\* Local state of a run that has not generated a scene yet.
StoryFresh ==
    /\ scene_i' = 1
    /\ attempted' = <<>>
    /\ img_res' = FreshScenes
    /\ aud_res' = FreshScenes
    /\ scene_images' = <<>>
    /\ audio_paths' = <<>>
    /\ story_id' = 0
    /\ save_i' = 1
    /\ scene_keys' = SceneNumbers
    /\ call_scenes' = {}
    /\ save_result' = "none"

\* The story generator has not run; the database is empty.
StoryIdle ==
    /\ st_pc = "idle"
    /\ st_runs = 0
    /\ scene_i = 1
    /\ attempted = <<>>
    /\ img_res = FreshScenes
    /\ aud_res = FreshScenes
    /\ scene_images = <<>>
    /\ audio_paths = <<>>
    /\ tx_stories = {}
    /\ tx_scenes = {}
    /\ story_id = 0
    /\ save_i = 1
    /\ scene_keys = SceneNumbers
    /\ call_scenes = {}
    /\ save_result = "none"

\* The batch job has not started.
JobIdle ==
    /\ pc = "job"
    /\ articles = 0
    /\ idx = 1
    /\ successful_articles = 0
    /\ processed = [i \in 1..MaxArticles |-> 0]
    /\ result = [i \in 1..MaxArticles |-> "unprocessed"]
    /\ anyFail = [i \in 1..MaxArticles |-> FALSE]
    /\ pending = <<>>
    /\ db = {}
    /\ insert_failed = 0
    /\ vocab_ok = TRUE
    /\ seg_vocab = <<>>
    /\ seg_emotion = None
    /\ image_path = None
    /\ audio_path = None
    /\ video_path = None
    /\ video_request = None
    /\ stages = <<>>
    /\ res = FreshStages
    /\ calls = FreshCalls
    /\ w_backend = "rh"
    /\ attempt = 0
    /\ polls = 0
    /\ lastRaw = NoRaw
    /\ outputs_fetched = 0
    /\ w_outputs = <<>>
    /\ w_end = "idle"
    /\ w_result = None

Init ==
    /\ service \in {"runninghub", "did"}
    /\ image_service \in {"runninghub", "gemini"}
    /\ use_tts \in BOOLEAN
    /\ max_attempts \in 0..MaxAttempts
    /\ JobIdle
    /\ ApiIdle
    /\ stories = {}
    /\ scenes = {}
    /\ StoryIdle
    /\ FnIdle

\* ---- job ------------------------------------------------------------------
\* main.py:1011  articles = get_news(); get_news returns [] on any error.
JobFetch ==
    /\ pc = "job"
    /\ \E n \in 0..MaxArticles : articles' = n
    /\ idx' = 1
    /\ pc' = "loop"
    /\ UNCHANGED <<apiVars, storyVars, fnVars, cfgVars, successful_articles, processed, result, anyFail,
                   pending, db, insert_failed, artVars, waitVars>>

\* main.py:1015-1016  the for loop takes the next article and calls
\* process_article on it.
JobNextArticle ==
    /\ pc = "loop"
    /\ idx <= articles
    /\ processed' = [processed EXCEPT ![idx] = @ + 1]
    /\ ArticleFresh
    /\ WaitIdle
    /\ pc' = "text"
    /\ UNCHANGED <<apiVars, storyVars, fnVars, cfgVars, articles, idx, successful_articles, result, anyFail,
                   pending, db, insert_failed>>

JobItemFailed_counted ==
    /\ pc = "ret_none"
    /\ result' = [result EXCEPT ![idx] = None]
    /\ successful_articles' = successful_articles + 1
    /\ idx' = idx + 1
    /\ pc' = "loop"
    /\ UNCHANGED <<apiVars, storyVars, fnVars, cfgVars, articles, processed, anyFail,
                   pending, db, insert_failed, artVars, waitVars>>

\* process_article returned None: the if at main.py:1016 is false.
JobItemFailed ==
    /\ pc = "ret_none"
    /\ result' = [result EXCEPT ![idx] = None]
    /\ idx' = idx + 1
    /\ pc' = "loop"
    /\ UNCHANGED <<apiVars, storyVars, fnVars, cfgVars, articles, successful_articles, processed, anyFail,
                   pending, db, insert_failed, artVars, waitVars>>

\* process_article returned the News object: successful_articles += 1.
JobItemSucceeded ==
    /\ pc = "ret_news"
    /\ result' = [result EXCEPT ![idx] = "news"]
    /\ successful_articles' = successful_articles + 1
    /\ idx' = idx + 1
    /\ pc' = "loop"
    /\ UNCHANGED <<apiVars, storyVars, fnVars, cfgVars, articles, processed, anyFail, pending, db,
                   insert_failed, artVars, waitVars>>

\* main.py:1026  the single session.commit() after the loop.
JobCommit ==
    /\ pc \in {"loop", "commit"}
    /\ pc = "loop" => idx > articles
    /\ db' = db \cup {pending[k] : k \in 1..Len(pending)}
    /\ pending' = <<>>
    /\ pc' = "done"
    /\ UNCHANGED <<apiVars, storyVars, fnVars, cfgVars, articles, idx, successful_articles, processed,
                   result, anyFail, insert_failed, artVars, waitVars>>

\* main.py:1026-1034  the commit flushes the pending INSERTs; when one of
\* them fails the exception reaches job's except clause, which rolls the
\* session back.
JobCommitFails ==
    /\ pc \in {"loop", "commit"}
    /\ pc = "loop" => idx > articles
    /\ \E k \in 1..Len(pending) : insert_failed' = pending[k].article
    /\ pending' = <<>>
    /\ pc' = "done"
    /\ UNCHANGED <<apiVars, storyVars, fnVars, cfgVars, articles, idx, successful_articles, processed,
                   result, anyFail, db, artVars, waitVars>>

\* A stage of the current article failed.
StageFails(stage) ==
    /\ res' = [res EXCEPT ![stage] = "fail"]
    /\ anyFail' = [anyFail EXCEPT ![idx] = TRUE]

\* ---- process_article ------------------------------------------------------
\* main.py:856-871  generate_alien_news and clean_json_response, then the
\* reads of the required keys.  The LLM call, the JSON parse and a missing
\* key raise; the except clause at main.py:977 returns None.
GenerateText ==
    /\ pc = "text"
    /\ stages' = Append(stages, "text")
    /\ calls' = [calls EXCEPT !.llm = @ + 1]
    /\ \E outcome \in {"ok", "short_vocab", "llm_error", "bad_json", "missing_key"} :
         IF outcome \in {"ok", "short_vocab"}
         THEN /\ res' = [res EXCEPT !["text"] = "ok"]
              /\ \E n \in 0..MaxVocab :
                   /\ (n >= VocabSlots) = (outcome = "ok")
                   /\ seg_vocab' = SubSeq(VocabPool, 1, n)
              /\ vocab_ok' = HasVocabSlots(seg_vocab')
              /\ seg_emotion' \in EmotionAnswers
              /\ pc' = "image"
              /\ UNCHANGED anyFail
         ELSE /\ StageFails("text")
              /\ pc' = OnStageFailure("text")
              /\ UNCHANGED <<vocab_ok, seg_vocab, seg_emotion>>
    /\ UNCHANGED <<apiVars, storyVars, fnVars, cfgVars, articles, idx, successful_articles, processed, result,
                   pending, db, insert_failed, image_path, audio_path, video_path, video_request,
                   waitVars>>

\* main.py:597-598 and 678-733  generate_image_with_gemini: the path on
\* success, the tuple (None, None) on every failure.
GenerateImageGemini ==
    /\ pc = "image"
    /\ image_service = "gemini"
    /\ stages' = Append(stages, "image")
    /\ \E outcome \in {"ok", "no_image", "no_call"} :
         /\ calls' = IF outcome = "no_call" THEN calls
                     ELSE [calls EXCEPT !.img = @ + 1]
         /\ IF outcome = "ok"
            THEN /\ image_path' = Path
                 /\ res' = [res EXCEPT !["image"] = "ok"]
                 /\ UNCHANGED anyFail
            ELSE /\ image_path' = NoneTuple
                 /\ StageFails("image")
    /\ pc' = "image_check"
    /\ UNCHANGED <<apiVars, storyVars, fnVars, cfgVars, articles, idx, successful_articles, processed, result,
                   pending, db, insert_failed, vocab_ok, seg_vocab, seg_emotion, audio_path, video_path, video_request,
                   waitVars>>

\* main.py:600 and 619-650  generate_image_with_runninghub up to the call
\* of wait_for_task: create_task is the submission.
SubmitImageTask ==
    /\ pc = "image"
    /\ image_service = "runninghub"
    /\ stages' = Append(stages, "image")
    /\ \E outcome \in {"submitted", "create_failed", "no_call"} :
         /\ calls' = IF outcome = "no_call" THEN calls
                     ELSE [calls EXCEPT !.img = @ + 1]
         /\ IF outcome = "submitted"
            THEN /\ WaitStart("rh")
                 /\ pc' = "img_wait"
                 /\ UNCHANGED <<image_path, res, anyFail>>
            ELSE /\ image_path' = NoneTuple
                 /\ StageFails("image")
                 /\ pc' = "image_check"
                 /\ UNCHANGED waitVars
    /\ UNCHANGED <<apiVars, storyVars, fnVars, cfgVars, articles, idx, successful_articles, processed, result,
                   pending, db, insert_failed, vocab_ok, seg_vocab, seg_emotion, audio_path, video_path, video_request>>

\* main.py:650-676  after wait_for_task: no output, no fileUrl or a failed
\* download return (None, None); a download with status 200 returns the path.
FinishImageTask ==
    /\ pc = "img_finish"
    /\ \E downloaded \in BOOLEAN :
         IF Truthy(w_result) /\ Truthy(FileUrl(w_result)) /\ downloaded
         THEN /\ image_path' = Path
              /\ res' = [res EXCEPT !["image"] = "ok"]
              /\ UNCHANGED anyFail
         ELSE /\ image_path' = NoneTuple
              /\ StageFails("image")
    /\ pc' = "image_check"
    /\ UNCHANGED <<apiVars, storyVars, fnVars, cfgVars, articles, idx, successful_articles, processed, result,
                   pending, db, insert_failed, vocab_ok, seg_vocab, seg_emotion, audio_path, video_path, video_request,
                   stages, calls, waitVars>>

\* main.py:887-889  if not image_path: return None
CheckImage ==
    /\ pc = "image_check"
    /\ pc' = IF ~Truthy(image_path) THEN OnStageFailure("image") ELSE "audio"
    /\ UNCHANGED <<apiVars, storyVars, fnVars, cfgVars, jobVars, artVars, waitVars>>

\* main.py:892-896  generate_audio_content indexes vocab[0..2]; a shorter
\* list raises and the except clause returns None.
AudioContentRaises ==
    /\ pc = "audio"
    /\ ~vocab_ok
    /\ StageFails("text")
    /\ pc' = OnStageFailure("text")
    /\ UNCHANGED <<apiVars, storyVars, fnVars, cfgVars, articles, idx, successful_articles, processed, result,
                   pending, db, insert_failed, vocab_ok, seg_vocab, seg_emotion, image_path, audio_path,
                   video_path, video_request, stages, calls, waitVars>>

\* main.py:905-916  generate_audio: the path, or None on any exception.
GenerateAudio ==
    /\ pc = "audio"
    /\ vocab_ok
    /\ NeedsAudioFile(service, use_tts)
    /\ stages' = Append(stages, "audio")
    /\ calls' = [calls EXCEPT !.tts = @ + 1]
    /\ \E ok \in BOOLEAN :
         IF ok
         THEN /\ audio_path' = Path
              /\ res' = [res EXCEPT !["audio"] = "ok"]
              /\ pc' = "video"
              /\ UNCHANGED anyFail
         ELSE /\ audio_path' = None
              /\ StageFails("audio")
              /\ pc' = OnStageFailure("audio")
    /\ UNCHANGED <<apiVars, storyVars, fnVars, cfgVars, articles, idx, successful_articles, processed, result,
                   pending, db, insert_failed, vocab_ok, seg_vocab, seg_emotion, image_path, video_path, video_request,
                   waitVars>>

\* main.py:928-935  the else branch: no audio file, the video is requested
\* with (text, voice_id).
SkipAudio ==
    /\ pc = "audio"
    /\ vocab_ok
    /\ ~NeedsAudioFile(service, use_tts)
    /\ pc' = "video"
    /\ UNCHANGED <<apiVars, storyVars, fnVars, cfgVars, jobVars, artVars, waitVars>>

\* main.py:766-772 and runninghub_service.py:337-388, or main.py:774-787 and
\* did_service.py:231-266: generate_video up to the polling loop.  Reading
\* the image (open / str.lower) raises when image_path is not a str; the
\* uploads and the submission (create_task / create_talk) can fail.
SubmitVideoTask ==
    /\ pc = "video"
    /\ stages' = Append(stages, "video")
    /\ video_request' = IF NeedsAudioFile(service, use_tts) THEN "audio" ELSE "text"
    /\ \E outcome \in {"submitted", "create_failed", "upload_failed"} :
         IF ~IsPathLike(image_path) \/ outcome # "submitted"
         THEN /\ calls' = IF IsPathLike(image_path) /\ outcome = "create_failed"
                          THEN [calls EXCEPT !.vid = @ + 1] ELSE calls
              /\ video_path' = None
              /\ StageFails("video")
              /\ pc' = OnStageFailure("video")
              /\ UNCHANGED waitVars
         ELSE /\ calls' = [calls EXCEPT !.vid = @ + 1]
              /\ WaitStart(IF service = "runninghub" THEN "rh" ELSE "did")
              /\ pc' = "vid_wait"
              /\ UNCHANGED <<video_path, res, anyFail>>
    /\ UNCHANGED <<apiVars, storyVars, fnVars, cfgVars, articles, idx, successful_articles, processed, result,
                   pending, db, insert_failed, vocab_ok, seg_vocab, seg_emotion, image_path, audio_path>>

\* runninghub_service.py:388-414  after wait_for_task, or the value the
\* D-ID polling loop returned; then main.py:945-947 if not video_path.
FinishVideoTask ==
    /\ pc = "vid_finish"
    /\ \E downloaded \in BOOLEAN :
         LET got == IF w_backend = "rh"
                    THEN Truthy(w_result) /\ Truthy(FileUrl(w_result)) /\ downloaded
                    ELSE Truthy(w_result)
         IN  IF got
             THEN /\ video_path' = Path
                  /\ res' = [res EXCEPT !["video"] = "ok"]
                  /\ pc' = "insert"
                  /\ UNCHANGED anyFail
             ELSE /\ video_path' = None
                  /\ StageFails("video")
                  /\ pc' = OnStageFailure("video")
    /\ UNCHANGED <<apiVars, storyVars, fnVars, cfgVars, articles, idx, successful_articles, processed, result,
                   pending, db, insert_failed, vocab_ok, seg_vocab, seg_emotion, image_path, audio_path,
                   video_request, stages, calls, waitVars>>

\* main.py:950-975  News(...), session.add(news), return news.
InsertNews ==
    /\ pc = "insert"
    /\ stages' = Append(stages, "insert")
    /\ res' = [res EXCEPT !["insert"] = "ok"]
    /\ pending' = Append(pending, News(idx, seg_vocab, audio_path, image_path,
                                        video_path))
    /\ pc' = "ret_news"
    /\ UNCHANGED <<apiVars, storyVars, fnVars, cfgVars, articles, idx, successful_articles, processed, result,
                   anyFail, db, insert_failed, vocab_ok, seg_vocab, seg_emotion,
                   image_path, audio_path, video_path, video_request, calls,
                   waitVars>>

\* ---- awaiting a remote task -----------------------------------------------
Waiting == pc \in {"img_wait", "vid_wait"}
AfterWait == IF pc = "img_wait" THEN "img_finish" ELSE "vid_finish"

\* runninghub_service.py:281-319  one iteration of wait_for_task's loop: a
\* status check, then the branch on its answer.  On SUCCESS the outputs are
\* fetched and the first one is returned.
RHPoll ==
    /\ Waiting
    /\ w_backend = "rh"
    /\ ~RangeExhausted(attempt, max_attempts)
    /\ \E raw \in RHStatusRaw, outRaw \in RHOutputsRaw :
         LET branch == RHBranch(get_task_status(raw))
             outs   == get_task_outputs(outRaw)
         IN  /\ polls' = polls + 1
             /\ lastRaw' = RHRawOf(raw)
             /\ IF branch = "retry"
                THEN /\ attempt' = attempt + 1
                     /\ pc' = pc
                     /\ UNCHANGED <<outputs_fetched, w_outputs, w_end, w_result>>
                ELSE IF branch = "success"
                THEN /\ outputs_fetched' = outputs_fetched + 1
                     /\ w_outputs' = outs
                     /\ w_result' = IF outs # <<>> THEN FirstOutput(outs) ELSE None
                     /\ w_end' = IF outs # <<>> THEN "success" ELSE "no_outputs"
                     /\ pc' = AfterWait
                     /\ UNCHANGED attempt
                ELSE /\ w_result' = None
                     /\ w_end' = branch
                     /\ pc' = AfterWait
                     /\ UNCHANGED <<attempt, outputs_fetched, w_outputs>>
    /\ UNCHANGED <<apiVars, storyVars, fnVars, cfgVars, jobVars, artVars, w_backend>>

\* did_service.py:271-303  one iteration of the polling loop of
\* DIDService.generate_video; on 'done' the video is downloaded at once.
DIDPoll ==
    /\ Waiting
    /\ w_backend = "did"
    /\ ~RangeExhausted(attempt, max_attempts)
    /\ \E raw \in DIDStatusRaw, downloaded \in BOOLEAN :
         LET st     == get_talk_status(raw)
             branch == DIDBranch(st)
         IN  /\ polls' = polls + 1
             /\ lastRaw' = DIDRawOf(raw)
             /\ IF branch = "retry"
                THEN /\ attempt' = attempt + 1
                     /\ pc' = pc
                     /\ UNCHANGED <<w_end, w_result>>
                ELSE IF branch = "done"
                THEN /\ w_result' = IF Truthy(st.result_url) /\ downloaded
                                    THEN Path ELSE None
                     /\ w_end' = IF ~Truthy(st.result_url) THEN "no_url"
                                 ELSE IF downloaded THEN "success"
                                 ELSE "download_failed"
                     /\ pc' = AfterWait
                     /\ UNCHANGED attempt
                ELSE /\ w_result' = None
                     /\ w_end' = "failed"
                     /\ pc' = AfterWait
                     /\ UNCHANGED attempt
    /\ UNCHANGED <<apiVars, storyVars, fnVars, cfgVars, jobVars, artVars, w_backend, outputs_fetched, w_outputs>>

\* runninghub_service.py:321-322 and did_service.py:305-306  the for loop
\* ran out of attempts.
PollTimeout ==
    /\ Waiting
    /\ RangeExhausted(attempt, max_attempts)
    /\ w_end' = "timeout"
    /\ w_result' = None
    /\ pc' = AfterWait
    /\ UNCHANGED <<apiVars, storyVars, fnVars, cfgVars, jobVars, artVars, w_backend, attempt, polls, lastRaw,
                   outputs_fetched, w_outputs>>

Next ==
    \/ JobFetch
    \/ JobNextArticle
    \/ JobItemFailed
    \/ JobItemSucceeded
    \/ JobCommit
    \/ JobCommitFails
    \/ GenerateText
    \/ GenerateImageGemini
    \/ SubmitImageTask
    \/ FinishImageTask
    \/ CheckImage
    \/ AudioContentRaises
    \/ GenerateAudio
    \/ SkipAudio
    \/ SubmitVideoTask
    \/ FinishVideoTask
    \/ InsertNews
    \/ RHPoll
    \/ DIDPoll
    \/ PollTimeout

Spec == Init /\ [][Next]_vars

\* ---- the read API (src/api/main.py) ----------------------------------------
\* The news table as the API finds it: rows 1..n.
InitApi ==
    /\ service = "runninghub"
    /\ image_service = "runninghub"
    /\ use_tts = FALSE
    /\ max_attempts = 0
    /\ JobIdle
    /\ \E n \in 0..MaxRows : news_rows = 1..n
    /\ story_rows = {}
    /\ api_req = NoReq
    /\ api_status = "none"
    /\ api_items = <<>>
    /\ rows_before = news_rows
    /\ stories = {}
    /\ scenes = {}
    /\ StoryIdle
    /\ FnIdle

\* api/main.py:185-228  GET /news/?limit=N
GetNews ==
    LET ordered == OrderByCreatedAtDesc(news_rows)
    IN  \E omitted \in BOOLEAN, n \in LimitInputs, db_ok \in BOOLEAN :
            LET given == IF omitted THEN DefaultLimit ELSE n
                limit == get_news_limit(given)
            IN  /\ omitted => n = DefaultLimit
                /\ api_req' = ApiReq("get_news", 0, given, omitted, "", FALSE, db_ok)
                /\ rows_before' = news_rows
                /\ IF db_ok
                      THEN /\ api_status' = "200"
                           /\ api_items' = SqlLimit(ordered, limit)
                      ELSE /\ api_status' = "500"
                           /\ api_items' = <<>>
                /\ UNCHANGED <<news_rows, story_rows, newsVars, storyVars, fnVars>>

\* api/main.py:230-250  DELETE /news/{news_id}
DeleteNews ==
    \E news_id \in 1..MaxNewsId, commit_ok \in BOOLEAN :
        LET found == news_id \in news_rows
            raised == IF ~found THEN HTTPException("404")
                      ELSE IF ~commit_ok THEN DBError
                      ELSE NoExc
            out == IF IsException(raised) THEN delete_news_except(raised) ELSE NoExc
        IN  /\ ~found => commit_ok
            /\ api_req' = ApiReq("delete_news", news_id, 0, FALSE, "", FALSE, commit_ok)
            /\ rows_before' = news_rows
            /\ news_rows' = IF IsException(raised) THEN news_rows
                            ELSE DeleteRow(news_rows, news_id)
            /\ api_status' = StatusOf(out)
            /\ api_items' = <<>>
            /\ UNCHANGED <<story_rows, newsVars, storyVars, fnVars>>

\* api/main.py:315-382  GET /story/scenes/date/{date}?latest_only=bool
GetScenesByDate ==
    \E date \in Dates, latest_only \in BOOLEAN, db_ok \in BOOLEAN :
        LET query == StoriesOfDate(story_rows, date)
            found == IF latest_only THEN SqlLimit(query, 1) ELSE query
            raised == IF ~db_ok THEN DBError
                      ELSE IF found = <<>> THEN HTTPException("404")
                      ELSE NoExc
            inner == IF IsException(raised) THEN scenes_inner_except(raised) ELSE NoExc
            out == IF IsException(inner) THEN scenes_outer_except(inner) ELSE NoExc
        IN  /\ api_req' = ApiReq("get_scenes_by_date", 0, 0, FALSE, date, latest_only, db_ok)
            /\ rows_before' = news_rows
            /\ api_status' = StatusOf(out)
            /\ api_items' = IF IsException(out) THEN <<>>
                            ELSE [k \in 1..Len(found) |-> found[k].id]
            /\ UNCHANGED <<news_rows, story_rows, newsVars, storyVars, fnVars>>

NextApi ==
    \/ GetNews
    \/ DeleteNews

SpecApi == InitApi /\ [][NextApi]_vars

\* The stories table as the API finds it: any subset of StoryPool.
InitScenesApi ==
    /\ service = "runninghub"
    /\ image_service = "runninghub"
    /\ use_tts = FALSE
    /\ max_attempts = 0
    /\ JobIdle
    /\ news_rows = {}
    /\ story_rows \in SUBSET StoryPool
    /\ api_req = NoReq
    /\ api_status = "none"
    /\ api_items = <<>>
    /\ rows_before = news_rows
    /\ stories = {}
    /\ scenes = {}
    /\ StoryIdle
    /\ FnIdle

NextScenesApi == GetScenesByDate

SpecScenesApi == InitScenesApi /\ [][NextScenesApi]_vars

\* ---- the story generator (src/cron/story.py) -------------------------------
\* The database holds the stories of earlier runs that had no failure.
InitStory ==
    /\ service = "runninghub"
    /\ image_service = "runninghub"
    /\ use_tts = FALSE
    /\ max_attempts = 0
    /\ JobIdle
    /\ ApiIdle
    /\ \E p \in 0..MaxPriorStories :
          /\ stories = {[id |-> k] : k \in 1..p}
          /\ scenes = UNION {FullStoryScenes(k) : k \in 1..p}
    /\ StoryIdle
    /\ FnIdle

\* conn.rollback(): the rows of the open transaction are dropped.
Rollback ==
    /\ tx_stories' = {}
    /\ tx_scenes' = {}
    /\ UNCHANGED <<stories, scenes>>

\* story.py:792-858  generate_adventure_story_with_images up to the scene loop:
\* character, character image and story text; any of them failing returns None.
StoryStart ==
    /\ st_pc = "idle"
    /\ st_runs < MaxStoryRuns
    /\ st_runs' = st_runs + 1
    /\ StoryFresh
    /\ \E ok \in BOOLEAN : st_pc' = IF ok THEN "scenes" ELSE "idle"
    /\ UNCHANGED <<stories, scenes, tx_stories, tx_scenes, newsVars, apiVars, fnVars>>

\* story.py:671-710  one iteration of the loop of generate_scene_images_and_audio
GenerateScene ==
    /\ st_pc = "scenes"
    /\ scene_i <= NumScenes
    /\ attempted' = Append(attempted, scene_i)
    /\ \E img \in {"ok", "fail"}, aud \in {"ok", "fail"} :
          /\ img_res' = [img_res EXCEPT ![scene_i] = img]
          /\ IF img = "ok"
                THEN /\ scene_images' = Append(scene_images, scene_i)
                     /\ aud_res' = [aud_res EXCEPT ![scene_i] = aud]
                     /\ audio_paths' = IF aud = "ok" THEN Append(audio_paths, scene_i)
                                       ELSE audio_paths
                     /\ scene_i' = scene_i + 1
                ELSE /\ aud = "fail"
                     /\ scene_i' = AfterSceneFailure(scene_i)
                     /\ UNCHANGED <<scene_images, aud_res, audio_paths>>
    /\ UNCHANGED <<st_pc, st_runs, stories, scenes, tx_stories, tx_scenes, story_id,
                   save_i, scene_keys, call_scenes, save_result, newsVars, apiVars, fnVars>>

\* story.py:711, 871-873, 715-768  the loop is over; the orchestrator gives up
\* when a list is empty, else save_story_results opens the database and calls
\* save_story_to_db (a failure to open it is swallowed).
ScenesDone ==
    /\ st_pc = "scenes"
    /\ scene_i > NumScenes
    /\ \E keys \in StoryKeySets, setup_ok \in BOOLEAN :
          IF scene_images = <<>> \/ audio_paths = <<>> \/ ~setup_ok
             THEN /\ keys = SceneNumbers
                  /\ st_pc' = "idle"
                  /\ save_result' = "skipped"
                  /\ UNCHANGED scene_keys
             ELSE /\ st_pc' = "insert_story"
                  /\ scene_keys' = keys
                  /\ UNCHANGED save_result
    /\ UNCHANGED <<st_runs, scene_i, attempted, img_res, aud_res, scene_images,
                   audio_paths, stories, scenes, tx_stories, tx_scenes, story_id,
                   save_i, call_scenes, newsVars, apiVars, fnVars>>

\* story.py:441-459  cursor.execute(INSERT INTO stories); story_id = cursor.lastrowid
InsertStory ==
    /\ st_pc = "insert_story"
    /\ \E ok \in BOOLEAN :
          IF ok
             THEN LET row == [id |-> lastrowid(stories \cup tx_stories)]
                  IN  /\ IF Autocommit
                            THEN /\ stories' = stories \cup {row}
                                 /\ UNCHANGED tx_stories
                            ELSE /\ tx_stories' = tx_stories \cup {row}
                                 /\ UNCHANGED stories
                      /\ story_id' = row.id
                      /\ save_i' = 1
                      /\ st_pc' = "insert_scene"
                      /\ UNCHANGED <<scenes, tx_scenes, save_result>>
             ELSE /\ Rollback
                  /\ save_result' = "raised"
                  /\ st_pc' = "idle"
                  /\ UNCHANGED <<story_id, save_i>>
    /\ UNCHANGED <<st_runs, scene_i, attempted, img_res, aud_res, scene_images,
                   audio_paths, scene_keys, call_scenes, newsVars, apiVars, fnVars>>

\* story.py:461-484  one iteration of the scene loop of save_story_to_db
InsertScene ==
    /\ st_pc = "insert_scene"
    /\ save_i <= NumScenes
    /\ \E ok \in BOOLEAN :
          IF save_i \in scene_keys /\ save_i <= Len(scene_images)
             THEN IF ok
                     THEN LET row == SceneRow(lastrowid(scenes \cup tx_scenes), story_id,
                                              save_i, scene_images, audio_paths)
                          IN  /\ IF Autocommit
                                    THEN /\ scenes' = scenes \cup {row}
                                         /\ UNCHANGED tx_scenes
                                    ELSE /\ tx_scenes' = tx_scenes \cup {row}
                                         /\ UNCHANGED scenes
                              /\ call_scenes' = call_scenes \cup {row}
                              /\ save_i' = save_i + 1
                              /\ UNCHANGED <<stories, tx_stories, st_pc, save_result>>
                     ELSE /\ Rollback
                          /\ save_result' = "raised"
                          /\ st_pc' = "idle"
                          /\ UNCHANGED <<save_i, call_scenes>>
             ELSE /\ ok
                  /\ save_i' = save_i + 1
                  /\ UNCHANGED <<stories, scenes, tx_stories, tx_scenes, call_scenes,
                                 st_pc, save_result>>
    /\ UNCHANGED <<st_runs, scene_i, attempted, img_res, aud_res, scene_images,
                   audio_paths, story_id, scene_keys, newsVars, apiVars, fnVars>>

\* story.py:486-510  conn.commit(), the verification SELECT, return story_id;
\* an error of either one is logged, rolled back and raised again.
CommitStory ==
    /\ st_pc = "insert_scene"
    /\ save_i > NumScenes
    /\ \E outcome \in {"ok", "commit_fails", "verify_fails"} :
          /\ IF outcome = "commit_fails"
                THEN Rollback
                ELSE /\ stories' = stories \cup tx_stories
                     /\ scenes' = scenes \cup tx_scenes
                     /\ tx_stories' = {}
                     /\ tx_scenes' = {}
          /\ save_result' = IF outcome = "ok" THEN "returned" ELSE "raised"
    /\ st_pc' = "idle"
    /\ UNCHANGED <<st_runs, scene_i, attempted, img_res, aud_res, scene_images,
                   audio_paths, story_id, save_i, scene_keys, call_scenes,
                   newsVars, apiVars, fnVars>>

NextStory ==
    \/ StoryStart
    \/ GenerateScene
    \/ ScenesDone
    \/ InsertStory
    \/ InsertScene
    \/ CommitStory

SpecStory == InitStory /\ [][NextStory]_vars

\* ---- content generation: clean_json_response and its callers ----------------
MaxText == 4    \* longest LLM answer, in tokens

\* An LLM answer is a string; the model reads it as a sequence of tokens.
Fence    == "fence"    \* three backticks
JsonTag  == "json"     \* the word json
Ws       == "ws"       \* a run of whitespace (blanks, newlines)
JsonBody == "{...}"    \* a JSON object
Prose    == "prose"    \* anything else
Tokens == {Fence, JsonTag, Ws, JsonBody, Prose}
Texts == SeqsUpTo(Tokens, MaxText)

\* str.startswith / str.endswith
StartsWith(s, p) == Len(s) >= Len(p) /\ SubSeq(s, 1, Len(p)) = p
EndsWith(s, p) == Len(s) >= Len(p) /\ SubSeq(s, Len(s) - Len(p) + 1, Len(s)) = p

\* str.strip(): leading and trailing whitespace removed
RECURSIVE Strip(_)
Strip(s) ==
    IF s # <<>> /\ Head(s) = Ws THEN Strip(Tail(s))
    ELSE IF s # <<>> /\ s[Len(s)] = Ws THEN Strip(SubSeq(s, 1, Len(s) - 1))
    ELSE s

\* main.py:110-116  the fence removal of clean_json_response: replace(p, '', 1)
\* on a string that starts with p removes that prefix.
StripFences(text) ==
    LET opened == IF StartsWith(text, <<Fence, JsonTag>>) THEN SubSeq(text, 3, Len(text))
                  ELSE IF StartsWith(text, <<Fence>>) THEN SubSeq(text, 2, Len(text))
                  ELSE text
    IN  IF EndsWith(opened, <<Fence>>) THEN SubSeq(opened, 1, Len(opened) - 1)
        ELSE opened

Parsed == [ok |-> TRUE, value |-> "object"]
JSONDecodeError == [ok |-> FALSE, value |-> "JSONDecodeError"]
NotCalled == [ok |-> FALSE, value |-> "not called"]

\* json.loads: a JSON value, whitespace around it allowed, nothing else.
json_loads(text) == IF Strip(text) = <<JsonBody>> THEN Parsed ELSE JSONDecodeError

\* main.py:106-127  fences off, strip(), json.loads; a JSONDecodeError is
\* printed and raised again.
clean_json_response(text) == json_loads(Strip(StripFences(text)))

OnDecodeError_fallbackAll(caller) == "fallback"
\* What the caller of clean_json_response does with a JSONDecodeError:
\* process_article has it caught by its 'except Exception' and returns None
\* (main.py:857, 977-981); generate_adventure_story saves the raw text and
\* returns a stand-in story with four placeholder scenes (story.py:232-245).
OnDecodeError(caller) == IF caller = "story" THEN "fallback" ELSE "raise"

\* An LLM answer arrives at one of the two callers.
InitContent ==
    /\ service = "runninghub"
    /\ image_service = "runninghub"
    /\ use_tts = FALSE
    /\ max_attempts = 0
    /\ JobIdle
    /\ ApiIdle
    /\ stories = {}
    /\ scenes = {}
    /\ StoryIdle
    /\ \E text \in Texts, caller \in {"news", "story"} :
          fn_args = [fn |-> "generate_content", text |-> text, caller |-> caller]
    /\ fn_ret = [fn |-> "generate_content", stage |-> "start", cleaned |-> NotCalled,
                 content |-> "none", records |-> {}]

\* main.py:856-857 / story.py:208-245  the LLM call and clean_json_response;
\* a failed LLM call leaves both callers without content.
GenerateContent ==
    /\ fn_ret.stage = "start"
    /\ \E llm_ok \in BOOLEAN :
          LET cleaned == IF llm_ok THEN clean_json_response(fn_args.text) ELSE NotCalled
              content == IF ~llm_ok THEN "none"
                         ELSE IF cleaned.ok THEN "parsed"
                         ELSE IF OnDecodeError(fn_args.caller) = "fallback" THEN "fallback"
                         ELSE "none"
          IN  fn_ret' = [fn_ret EXCEPT !.stage = "content", !.cleaned = cleaned,
                                       !.content = content]
    /\ UNCHANGED <<fn_args, newsVars, apiVars, storyVars>>

\* main.py:977-981 / story.py:856-858  without content the caller returns None.
ContentFailed ==
    /\ fn_ret.stage = "content"
    /\ fn_ret.content = "none"
    /\ fn_ret' = [fn_ret EXCEPT !.stage = "end"]
    /\ UNCHANGED <<fn_args, newsVars, apiVars, storyVars>>

\* main.py:860-966 / story.py:860-893  with content the pipeline goes on; when
\* its later stages succeed a record made from that content is persisted.
PersistContent ==
    /\ fn_ret.stage = "content"
    /\ fn_ret.content # "none"
    /\ \E rest_ok \in BOOLEAN :
          fn_ret' = [fn_ret EXCEPT
                        !.stage = "end",
                        !.records = IF rest_ok
                                       THEN {[of |-> fn_args.caller, from |-> fn_ret.content]}
                                       ELSE {}]
    /\ UNCHANGED <<fn_args, newsVars, apiVars, storyVars>>

NextContent ==
    \/ GenerateContent
    \/ ContentFailed
    \/ PersistContent

SpecContent == InitContent /\ [][NextContent]_vars

\* ---- voice selection: get_random_voice --------------------------------------
MaxPicks == 2    \* calls of get_random_voice with the same argument

\* main.py:232-239  the catalog; a voice's id is written as its name
Voices ==
    {[id |-> "Charlie", gender |-> "male"], [id |-> "Alice", gender |-> "female"],
     [id |-> "Chris", gender |-> "male"], [id |-> "Eric", gender |-> "male"],
     [id |-> "Jessica", gender |-> "female"], [id |-> "Lily", gender |-> "female"]}

\* Arguments get_random_voice is called with; None and '' are falsy.
GenderArgs == {"male", "Male", "female", "FEMALE", "martian", "", None}

\* str.lower()
Lower(g) ==
    CASE g = "Male" -> "male"
      [] g = "FEMALE" -> "female"
      [] OTHER -> g

FilterVoices_caseSensitive(gender) == {v \in Voices : v.gender = gender}
\* [voice for voice in voices if voice["gender"] == gender.lower()]
FilterVoices(gender) == {v \in Voices : v.gender = Lower(gender)}

\* main.py:241-249  the voices random.choice draws from
VoiceChoices(gender) ==
    IF gender \notin {"", None} /\ FilterVoices(gender) # {}
       THEN FilterVoices(gender)
       ELSE Voices

InitVoice ==
    /\ service = "runninghub"
    /\ image_service = "runninghub"
    /\ use_tts = FALSE
    /\ max_attempts = 0
    /\ JobIdle
    /\ ApiIdle
    /\ stories = {}
    /\ scenes = {}
    /\ StoryIdle
    /\ \E gender \in GenderArgs : fn_args = [fn |-> "get_random_voice", gender |-> gender]
    /\ fn_ret = [fn |-> "get_random_voice", picks |-> <<>>]

\* main.py:221-249  one call of get_random_voice(gender)
GetRandomVoice ==
    /\ Len(fn_ret.picks) < MaxPicks
    /\ \E voice \in VoiceChoices(fn_args.gender) :
          fn_ret' = [fn_ret EXCEPT !.picks = Append(@, voice)]
    /\ UNCHANGED <<fn_args, newsVars, apiVars, storyVars>>

NextVoice == GetRandomVoice

SpecVoice == InitVoice /\ [][NextVoice]_vars

\* ---- audio normalisation: generate_audio -------------------------------------
MaxChunks == 2      \* most chunks of a chunked TTS response
MaxChunkLen == 2    \* most bytes of a chunk or buffer

Bytes == {"a", "b"}
Buffers == SeqsUpTo(Bytes, MaxChunkLen)

\* What client.text_to_speech.convert can give: an iterator of chunks, a bytes
\* buffer, a file-like object holding a buffer, or an exception.
TtsResponses ==
    [kind : {"chunks"}, chunks : SeqsUpTo(Buffers, MaxChunks)]
        \cup [kind : {"bytes", "filelike"}, chunks : {<<b>> : b \in Buffers}]
        \cup [kind : {"error"}, chunks : {<<>>}]

RECURSIVE Concat_reversed(_)
Concat_reversed(chunks) ==
    IF chunks = <<>> THEN <<>> ELSE Concat_reversed(Tail(chunks)) \o Head(chunks)
\* for chunk in audio_response: audio_chunks.extend(chunk)
RECURSIVE Concat(_)
Concat(chunks) ==
    IF chunks = <<>> THEN <<>> ELSE Head(chunks) \o Concat(Tail(chunks))

\* main.py:305-318  audio_data from the three shapes of a response
audio_data(response) ==
    IF response.kind = "chunks" THEN Concat(response.chunks)
    ELSE response.chunks[1]

\* main.py:279-284  audio_path = f"{base_path}/audio/{audio_filename}"
AudioPath(filename) ==
    <<"base_path", "audio", IF filename # None THEN filename ELSE "alien_news_timestamp.mp3">>

InitAudio ==
    /\ service = "runninghub"
    /\ image_service = "runninghub"
    /\ use_tts = FALSE
    /\ max_attempts = 0
    /\ JobIdle
    /\ ApiIdle
    /\ stories = {}
    /\ scenes = {}
    /\ StoryIdle
    /\ \E response \in TtsResponses, filename \in {None, "scene1_timestamp.mp3"} :
          fn_args = [fn |-> "generate_audio", response |-> response, filename |-> filename]
    /\ fn_ret = [fn |-> "generate_audio", called |-> FALSE, returned |-> <<>>, files |-> {}]

\* main.py:251-330  generate_audio: the TTS call, the normalisation, the write;
\* every exception (of the call, of the write) is caught and gives None.
WriteAudio ==
    /\ ~fn_ret.called
    /\ \E write_ok \in BOOLEAN :
          LET path == AudioPath(fn_args.filename)
              ok == fn_args.response.kind # "error" /\ write_ok
          IN  fn_ret' = [fn_ret EXCEPT
                            !.called = TRUE,
                            !.returned = IF ok THEN path ELSE <<>>,
                            !.files = IF ok
                                         THEN {[path |-> path,
                                                content |-> audio_data(fn_args.response)]}
                                         ELSE {}]
    /\ UNCHANGED <<fn_args, newsVars, apiVars, storyVars>>

NextAudio == WriteAudio

SpecAudio == InitAudio /\ [][NextAudio]_vars

\* ---- artifacts of news items: timestamps and paths ---------------------------
MaxItems == 2     \* articles of one batch
MaxClock == 2     \* the clock runs over the seconds 0..MaxClock
MaxSuffix == 2    \* values uuid4().hex[:6] is drawn from
DayLen == 2       \* seconds of a day of the model's clock

NoDir == 0 - 1    \* a file that lies directly in {base}/{kind}/
ArtifactStages == <<"text", "images", "audio", "videos">>

\* datetime.now().strftime('%Y%m%d%H%M%S'), with the suffix app.py adds
Timestamp(clock, suffix) ==
    [date |-> clock \div DayLen, time |-> clock % DayLen, suffix |-> suffix]
NoTimestamp == Timestamp(0, 0)

\* timestamp[:8]
DatePart(timestamp) == timestamp.date

\* main.py:1062-1066  {base_path}/text/{date}/alien_news_{timestamp}.json
\* main.py:590-594    {base_path}/images/{date}/alien_news_{timestamp}.png
\* main.py:899-900    {base_path}/videos/{date}/alien_news_{timestamp}.mp4
\* main.py:279-284    {base_path}/audio/alien_news_{timestamp}.mp3
ArtifactPath(stage, timestamp) ==
    [kind |-> stage,
     dir |-> IF stage = "audio" THEN NoDir ELSE DatePart(timestamp),
     stamp |-> timestamp]

\* main.py:844 takes the bare timestamp; app.py:172-174 appends a random suffix.
Suffixes(program) == IF program = "app" THEN 1..MaxSuffix ELSE {0}

InitArtifacts ==
    /\ service = "runninghub"
    /\ image_service = "runninghub"
    /\ use_tts = FALSE
    /\ max_attempts = 0
    /\ JobIdle
    /\ ApiIdle
    /\ stories = {}
    /\ scenes = {}
    /\ StoryIdle
    /\ \E program \in {"main", "app"} : fn_args = [fn |-> "artifacts", program |-> program]
    /\ fn_ret = [fn |-> "artifacts", clock |-> 0, item |-> 0, stage |-> 0,
                 timestamp |-> NoTimestamp, files |-> {}, writes |-> {}, records |-> {}]

\* Time passes.
Tick ==
    /\ fn_ret.clock < MaxClock
    /\ fn_ret' = [fn_ret EXCEPT !.clock = @ + 1]
    /\ UNCHANGED <<fn_args, newsVars, apiVars, storyVars>>

\* main.py:843-846 / app.py:168-175  the next article: its timestamp is taken.
StartItem ==
    /\ fn_ret.stage = 0
    /\ fn_ret.item < MaxItems
    /\ \E suffix \in Suffixes(fn_args.program) :
          fn_ret' = [fn_ret EXCEPT !.item = @ + 1, !.stage = 1,
                                   !.timestamp = Timestamp(fn_ret.clock, suffix)]
    /\ UNCHANGED <<fn_args, newsVars, apiVars, storyVars>>

\* One stage of the item: on success its artifact is written (an existing
\* file of that path is overwritten), on failure the item ends.
WriteArtifact ==
    /\ fn_ret.stage \in 1..Len(ArtifactStages)
    /\ \E ok \in BOOLEAN :
          LET path == ArtifactPath(ArtifactStages[fn_ret.stage], fn_ret.timestamp)
              file == [path |-> path, item |-> fn_ret.item]
          IN  IF ok
                 THEN fn_ret' = [fn_ret EXCEPT
                                    !.stage = @ + 1,
                                    !.files = {f \in @ : f.path # path} \cup {file},
                                    !.writes = @ \cup {file}]
                 ELSE fn_ret' = [fn_ret EXCEPT !.stage = 0]
    /\ UNCHANGED <<fn_args, newsVars, apiVars, storyVars>>

\* main.py:949-966  the News record with the three paths.
RecordItem ==
    /\ fn_ret.stage = Len(ArtifactStages) + 1
    /\ fn_ret' = [fn_ret EXCEPT
                     !.stage = 0,
                     !.records = @ \cup
                        {[item |-> fn_ret.item,
                          audio_path |-> ArtifactPath("audio", fn_ret.timestamp),
                          image_path |-> ArtifactPath("images", fn_ret.timestamp),
                          video_path |-> ArtifactPath("videos", fn_ret.timestamp)]}]
    /\ UNCHANGED <<fn_args, newsVars, apiVars, storyVars>>

NextArtifacts ==
    \/ Tick
    \/ StartItem
    \/ WriteArtifact
    \/ RecordItem

SpecArtifacts == InitArtifacts /\ [][NextArtifacts]_vars

\* ------------------------------------------------------------------------
\* Remote calls of one image or video generation: the dispatcher
\* generate_video (main.py:735-796), DIDService.generate_video
\* (did_service.py:203-311), RunningHubService.generate_video
\* (runninghub_service.py:324-419) and generate_image_with_runninghub
\* (main.py:607-676).  fn_ret.calls is the log of requests sent to the
\* remote services, in order.
\* ------------------------------------------------------------------------
EntryPoints == {"generate_video", "DIDService.generate_video",
            "generate_image_with_runninghub"}

\* The answer to POST /task/openapi/create: the HTTP status (or no answer at
\* all), the code field of the body and the shape of its data field.
CreateResponses ==
    [http : {"200", "500", "neterr"},
     code : {0, 1},
     data : {"task", "no_id", "null", "absent", "unparsable"}]

\* runninghub_service.py:135-158  data.get('taskId') of the answer's body:
\* a body that is not JSON, a null data field (None.get) and a request that
\* never came back raise, which the except turns into None.
CreateRaises(r) == r.http = "neterr" \/ r.data = "unparsable"

create_task_ignoresCode(r) ==
    IF CreateRaises(r) THEN None
    ELSE IF r.http = "200" /\ r.data = "task" THEN "task_data" ELSE None

\* runninghub_service.py:94-158  RunningHubService.create_task
create_task(r) ==
    IF CreateRaises(r) THEN None
    ELSE IF r.http = "200" /\ r.code = 0
         THEN IF r.data = "task" THEN "task_data" ELSE None
         ELSE None

NoCreateResponse == [http |-> "none", code |-> 0, data |-> "none"]

TalkInput_textAlone(audio, text, voice) == Truthy(audio) \/ Truthy(text)

\* did_service.py:235 / main.py:775  audio_path or (text and voice_id)
TalkInput(audio, text, voice) ==
    Truthy(audio) \/ (Truthy(text) /\ Truthy(voice))

\* The outcomes of the two uploads of RunningHubService.generate_video.
NoUploads == [audio |-> "none", image |-> "none"]

UploadOutcome(ok) == IF ok THEN "ok" ELSE "fail"

UploadsOk_either(uploaded) == uploaded.audio = "ok" \/ uploaded.image = "ok"

\* runninghub_service.py:357  not (not uploaded_audio or not uploaded_image)
UploadsOk(uploaded) == uploaded.audio = "ok" /\ uploaded.image = "ok"

\* What a download request can come back with.
DownloadAnswers == {"200", "404", "neterr"}

\* did_service.py:330-336 / runninghub_service.py:403-411  the file is
\* written and the call succeeds only on status 200; written is whether
\* the write of the file went through.
Downloaded(http, written) == http = "200" /\ written

\* The call has not returned yet / create_task has not been called.
Pending == "pending"

EntryPc(entry) ==
    IF entry = "generate_video" THEN "dispatch"
    ELSE IF entry = "DIDService.generate_video" THEN "did_validate"
    ELSE "rh_create"

InitRemote ==
    /\ service = "runninghub"
    /\ image_service = "runninghub"
    /\ use_tts = FALSE
    /\ max_attempts = 0
    /\ JobIdle
    /\ ApiIdle
    /\ stories = {}
    /\ scenes = {}
    /\ StoryIdle
    /\ \E entry \in EntryPoints, svc \in {"runninghub", "did", "other"},
          audio \in {None, Path}, text \in {None, "text"}, voice \in {None, "voice"} :
          /\ entry = "DIDService.generate_video" => svc = "did"
          /\ entry = "generate_image_with_runninghub" =>
                 svc = "runninghub" /\ audio = None /\ text = None /\ voice = None
          /\ fn_args = [fn |-> "remote", entry |-> entry, service |-> svc,
                        audio_path |-> audio, text |-> text, voice_id |-> voice]
          /\ fn_ret = [fn |-> "remote", pc |-> EntryPc(entry), calls |-> <<>>,
                       created |-> NoCreateResponse, task |-> Pending,
                       uploaded |-> NoUploads, download |-> "none",
                       returned |-> Pending]

Return(value) == [fn_ret EXCEPT !.pc = "done", !.returned = value]

Request(name, next) == [fn_ret EXCEPT !.pc = next, !.calls = Append(@, name)]

Failed(name) ==
    [fn_ret EXCEPT !.pc = "done", !.calls = Append(@, name), !.returned = None]

\* main.py:757-796  generate_video: the service's input check, then the
\* service object's generate_video.
DispatchVideo ==
    /\ fn_ret.pc = "dispatch"
    /\ fn_ret' =
         IF fn_args.service = "runninghub"
         THEN IF ~Truthy(fn_args.audio_path) THEN Return(None)
              ELSE [fn_ret EXCEPT !.pc = "rh_upload"]
         ELSE IF fn_args.service = "did"
         THEN IF ~TalkInput(fn_args.audio_path, fn_args.text, fn_args.voice_id)
              THEN Return(None)
              ELSE [fn_ret EXCEPT !.pc = "did_validate"]
         ELSE Return(None)
    /\ UNCHANGED <<fn_args, newsVars, apiVars, storyVars>>

\* did_service.py:231-237  DIDService.generate_video: the input check.
ValidateTalk ==
    /\ fn_ret.pc = "did_validate"
    /\ fn_ret' =
         IF ~TalkInput(fn_args.audio_path, fn_args.text, fn_args.voice_id)
         THEN Return(None)
         ELSE [fn_ret EXCEPT !.pc = "did_upload_image"]
    /\ UNCHANGED <<fn_args, newsVars, apiVars, storyVars>>

UploadTalkImage_thenAudio ==
    /\ fn_ret.pc = "did_upload_image"
    /\ \E ok \in BOOLEAN :
          fn_ret' = IF ~ok THEN Failed("did.upload_image")
                    ELSE Request("did.upload_image", "did_upload_audio")
    /\ UNCHANGED <<fn_args, newsVars, apiVars, storyVars>>

\* did_service.py:239-244  upload_image
UploadTalkImage ==
    /\ fn_ret.pc = "did_upload_image"
    /\ \E ok \in BOOLEAN :
          fn_ret' = IF ~ok THEN Failed("did.upload_image")
                    ELSE Request("did.upload_image",
                                 IF Truthy(fn_args.audio_path) THEN "did_upload_audio"
                                 ELSE "did_create_talk")
    /\ UNCHANGED <<fn_args, newsVars, apiVars, storyVars>>

\* did_service.py:246-253  upload_audio, only with an audio_path
UploadTalkAudio ==
    /\ fn_ret.pc = "did_upload_audio"
    /\ \E ok \in BOOLEAN :
          fn_ret' = IF ok THEN Request("did.upload_audio", "did_create_talk")
                    ELSE Failed("did.upload_audio")
    /\ UNCHANGED <<fn_args, newsVars, apiVars, storyVars>>

\* did_service.py:255-266  create_talk and the talk id of its answer
CreateTalk ==
    /\ fn_ret.pc = "did_create_talk"
    /\ \E ok \in BOOLEAN :
          fn_ret' = IF ok THEN Request("did.create_talk", "did_poll")
                    ELSE Failed("did.create_talk")
    /\ UNCHANGED <<fn_args, newsVars, apiVars, storyVars>>

\* did_service.py:268-306  the status polls, until done with a result_url
AwaitTalk ==
    /\ fn_ret.pc = "did_poll"
    /\ \E ok \in BOOLEAN :
          fn_ret' = IF ok THEN Request("did.get_talk_status", "did_download")
                    ELSE Failed("did.get_talk_status")
    /\ UNCHANGED <<fn_args, newsVars, apiVars, storyVars>>

\* did_service.py:284-292  download_video
DownloadTalk ==
    /\ fn_ret.pc = "did_download"
    /\ \E http \in DownloadAnswers, written \in BOOLEAN :
          fn_ret' = [fn_ret EXCEPT !.pc = "done",
                                   !.calls = Append(@, "did.download_video"),
                                   !.download = http,
                                   !.returned = IF Downloaded(http, written)
                                                THEN Path ELSE None]
    /\ UNCHANGED <<fn_args, newsVars, apiVars, storyVars>>

\* runninghub_service.py:347-359  both files are read, the audio is
\* uploaded, then the image, and only then the two results are looked at.
UploadTaskFiles ==
    /\ fn_ret.pc = "rh_upload"
    /\ \E readable, audio_ok, image_ok \in BOOLEAN :
          LET uploaded == [audio |-> UploadOutcome(audio_ok),
                           image |-> UploadOutcome(image_ok)] IN
          fn_ret' =
            IF ~readable THEN Return(None)
            ELSE [fn_ret EXCEPT
                    !.calls = @ \o <<"rh.upload_file(audio)", "rh.upload_file(image)">>,
                    !.uploaded = uploaded,
                    !.pc = IF UploadsOk(uploaded) THEN "rh_create" ELSE "done",
                    !.returned = IF UploadsOk(uploaded) THEN @ ELSE None]
    /\ UNCHANGED <<fn_args, newsVars, apiVars, storyVars>>

\* runninghub_service.py:361-385 / main.py:634-647  create_task, and the
\* caller's return when it yields nothing.
CreateTask ==
    /\ fn_ret.pc = "rh_create"
    /\ \E r \in CreateResponses :
          LET task == create_task(r) IN
          fn_ret' = [fn_ret EXCEPT
                       !.calls = Append(@, "rh.create_task"),
                       !.created = r,
                       !.task = task,
                       !.pc = IF task = None THEN "done" ELSE "rh_wait",
                       !.returned = IF task = None THEN None ELSE @]
    /\ UNCHANGED <<fn_args, newsVars, apiVars, storyVars>>

\* runninghub_service.py:387-400 / main.py:649-659  wait_for_task and the
\* fileUrl of its output
AwaitTask ==
    /\ fn_ret.pc = "rh_wait"
    /\ \E ok \in BOOLEAN :
          fn_ret' = IF ok THEN Request("rh.get_task_status", "rh_download")
                    ELSE Failed("rh.get_task_status")
    /\ UNCHANGED <<fn_args, newsVars, apiVars, storyVars>>

\* runninghub_service.py:402-415 / main.py:661-672  the output's download
DownloadTaskOutput ==
    /\ fn_ret.pc = "rh_download"
    /\ \E http \in DownloadAnswers, written \in BOOLEAN :
          fn_ret' = [fn_ret EXCEPT !.pc = "done",
                                   !.calls = Append(@, "rh.download"),
                                   !.download = http,
                                   !.returned = IF Downloaded(http, written)
                                                THEN Path ELSE None]
    /\ UNCHANGED <<fn_args, newsVars, apiVars, storyVars>>

NextRemote ==
    \/ DispatchVideo
    \/ ValidateTalk
    \/ UploadTalkImage
    \/ UploadTalkAudio
    \/ CreateTalk
    \/ AwaitTalk
    \/ DownloadTalk
    \/ UploadTaskFiles
    \/ CreateTask
    \/ AwaitTask
    \/ DownloadTaskOutput

SpecRemote == InitRemote /\ [][NextRemote]_vars

\* ------------------------------------------------------------------------
\* check_folders_exist (main.py:798-826) on the four folders of one date.
\* fn_args.folders is the file system before the call: every folder is
\* absent, empty or has content.
\* ------------------------------------------------------------------------
RequiredFolders == <<"text", "audio", "images", "videos">>

FolderStates == {"absent", "empty", "content"}

NoFailure == 0    \* os.makedirs raises for no folder

\* main.py:818-820  os.makedirs(folder_path, exist_ok=True): an existing
\* folder is left as it is, a missing one is created empty.
makedirs(state) == IF state = "absent" THEN "empty" ELSE state

\* main.py:816-826  the folders in the order of the dict; fails_at is the
\* index of the folder at which os.makedirs raises (NoFailure: none).
FoldersAfter(folders, fails_at) ==
    [k \in 1..Len(RequiredFolders) |->
        IF fails_at = NoFailure \/ k < fails_at THEN makedirs(folders[k])
        ELSE folders[k]]

check_folders_exist(folders, fails_at) == fails_at = NoFailure

InitFolders ==
    /\ service = "runninghub"
    /\ image_service = "runninghub"
    /\ use_tts = FALSE
    /\ max_attempts = 0
    /\ JobIdle
    /\ ApiIdle
    /\ stories = {}
    /\ scenes = {}
    /\ StoryIdle
    /\ \E folders \in [1..Len(RequiredFolders) -> FolderStates],
          fails_at \in 0..Len(RequiredFolders) :
          /\ fails_at # NoFailure => folders[fails_at] = "absent"
          /\ fn_args = [fn |-> "check_folders_exist", folders |-> folders,
                        fails_at |-> fails_at]
    /\ fn_ret = [fn |-> "check_folders_exist", called |-> FALSE,
                 folders |-> fn_args.folders, returned |-> FALSE]

CheckFolders ==
    /\ ~fn_ret.called
    /\ fn_ret' = [fn_ret EXCEPT
                    !.called = TRUE,
                    !.folders = FoldersAfter(fn_args.folders, fn_args.fails_at),
                    !.returned = check_folders_exist(fn_args.folders, fn_args.fails_at)]
    /\ UNCHANGED <<fn_args, newsVars, apiVars, storyVars>>

NextFolders == CheckFolders

SpecFolders == InitFolders /\ [][NextFolders]_vars

\* ------------------------------------------------------------------------
\* get_file_url (src/api/main.py:42-46).  A path is a sequence of
\* characters, absent when the column is NULL.
\* ------------------------------------------------------------------------
MaxPathLen == 4

Sep == "/"

PathChars == {Sep, "a", "b"}

FilePaths ==
    {[given |-> FALSE, chars |-> <<>>]} \cup
    {[given |-> TRUE, chars |-> c] : c \in SeqsUpTo(PathChars, MaxPathLen)}

StaticBase == "http://localhost:8003/data/"

UrlNone == [isNone |-> TRUE, base |-> "", rest |-> <<>>]

\* str.split('/'): the pieces between the separators, empty pieces kept.
RECURSIVE SplitSep(_, _)
SplitSep(chars, piece) ==
    IF chars = <<>> THEN <<piece>>
    ELSE IF Head(chars) = Sep THEN <<piece>> \o SplitSep(Tail(chars), <<>>)
    ELSE SplitSep(Tail(chars), Append(piece, Head(chars)))

split(chars) == SplitSep(chars, <<>>)

\* '/'.join(pieces)
RECURSIVE join(_)
join(pieces) ==
    IF pieces = <<>> THEN <<>>
    ELSE IF Len(pieces) = 1 THEN pieces[1]
    ELSE pieces[1] \o <<Sep>> \o join(Tail(pieces))

get_file_url_wholePath(file_path) ==
    IF ~file_path.given \/ file_path.chars = <<>> THEN UrlNone
    ELSE [isNone |-> FALSE, base |-> StaticBase, rest |-> join(split(file_path.chars))]

\* src/api/main.py:42-46
get_file_url(file_path) ==
    IF ~file_path.given \/ file_path.chars = <<>> THEN UrlNone
    ELSE [isNone |-> FALSE, base |-> StaticBase,
          rest |-> join(Tail(split(file_path.chars)))]

InitUrl ==
    /\ service = "runninghub"
    /\ image_service = "runninghub"
    /\ use_tts = FALSE
    /\ max_attempts = 0
    /\ JobIdle
    /\ ApiIdle
    /\ stories = {}
    /\ scenes = {}
    /\ StoryIdle
    /\ \E file_path \in FilePaths : fn_args = [fn |-> "get_file_url", file_path |-> file_path]
    /\ fn_ret = [fn |-> "get_file_url", called |-> FALSE, url |-> UrlNone]

GetFileUrl ==
    /\ ~fn_ret.called
    /\ fn_ret' = [fn_ret EXCEPT !.called = TRUE, !.url = get_file_url(fn_args.file_path)]
    /\ UNCHANGED <<fn_args, newsVars, apiVars, storyVars>>

NextUrl == GetFileUrl

SpecUrl == InitUrl /\ [][NextUrl]_vars

\* ------------------------------------------------------------------------
\* The narration voice of a story: prepare_character (story.py:541-597),
\* generate_adventure_story_with_images (story.py:838-869), the scene audio
\* of generate_scene_images_and_audio (story.py:696-706) and the story row
\* of save_story_to_db (story.py:428-455).
\* ------------------------------------------------------------------------
NoVoice == "none"

\* main.py:221  def get_random_voice(gender="male")
DefaultGender == "male"

InitNarration ==
    /\ service = "runninghub"
    /\ image_service = "runninghub"
    /\ use_tts = FALSE
    /\ max_attempts = 0
    /\ JobIdle
    /\ ApiIdle
    /\ stories = {}
    /\ scenes = {}
    /\ StoryIdle
    /\ \E gender \in {"male", "female"} : fn_args = [fn |-> "narration", gender |-> gender]
    /\ fn_ret = [fn |-> "narration", pc |-> "prepare", voice_id |-> NoVoice,
                 voice |-> NoVoice, scene |-> 1, narrated |-> {}, story_voice_id |-> NoVoice]

\* story.py:585-594  voice = get_random_voice(gender);
\* character_data['voice_id'] = voice.get('id')
PrepareCharacter ==
    /\ fn_ret.pc = "prepare"
    /\ \E voice \in VoiceChoices(fn_args.gender) :
          fn_ret' = [fn_ret EXCEPT !.pc = "voice", !.voice_id = voice.id,
                                   !.voice = voice.id]
    /\ UNCHANGED <<fn_args, newsVars, apiVars, storyVars>>

\* story.py:862-863  voice = get_random_voice()
PickNarrationVoice ==
    /\ fn_ret.pc = "voice"
    /\ \E voice \in VoiceChoices(DefaultGender) :
          fn_ret' = [fn_ret EXCEPT !.pc = "scenes", !.voice = voice.id]
    /\ UNCHANGED <<fn_args, newsVars, apiVars, storyVars>>

\* story.py:696-706  generate_audio(..., voice=voice) for one scene; a
\* failed synthesis leaves the scene without narration.
NarrateScene ==
    /\ fn_ret.pc = "scenes"
    /\ fn_ret.scene <= NumScenes
    /\ \E ok \in BOOLEAN :
          fn_ret' = [fn_ret EXCEPT
                       !.scene = @ + 1,
                       !.narrated = IF ok THEN @ \cup {[scene |-> fn_ret.scene,
                                                        voice |-> fn_ret.voice]}
                                    ELSE @]
    /\ UNCHANGED <<fn_args, newsVars, apiVars, storyVars>>

\* story.py:871-873, 428-455  with narrations made, the story row is
\* inserted with voice_id = character_data['voice_id'].
SaveStoryVoice ==
    /\ fn_ret.pc = "scenes"
    /\ fn_ret.scene > NumScenes
    /\ fn_ret' = [fn_ret EXCEPT
                    !.pc = "done",
                    !.story_voice_id = IF fn_ret.narrated = {} THEN @ ELSE fn_ret.voice_id]
    /\ UNCHANGED <<fn_args, newsVars, apiVars, storyVars>>

NextNarration ==
    \/ PrepareCharacter
    \/ PickNarrationVoice
    \/ NarrateScene
    \/ SaveStoryVoice

SpecNarration == InitNarration /\ [][NextNarration]_vars

\* ---- properties -----------------------------------------------------------
HasRow(i) == \E r \in db : r.article = i
WaitEnded == w_end \notin {"idle", "pending"}
FailedCheck == lastRaw.http \in {"neterr", "unparsable", "500"}
SawSuccess == w_backend = "rh" /\ lastRaw.http = "200" /\ lastRaw.code = 0
              /\ lastRaw.data = "SUCCESS"
SawFailed == w_backend = "rh" /\ lastRaw.http = "200" /\ lastRaw.code = 0
             /\ lastRaw.data = "FAILED"
\* The last status check reported neither an end of the task nor an error.
SawNoTerminal ==
    \/ lastRaw.http # "200"
    \/ w_backend = "rh" /\ lastRaw.code = 0 /\ lastRaw.data \notin {"SUCCESS", "FAILED"}
    \/ w_backend = "did" /\ lastRaw.status \notin {"done", "error", "rejected"}

\* C1: a failure of one article at any stage does not abort the batch: no
\* article is processed twice, every article before the loop position has
\* been processed once, and when the job ends every fetched article has
\* been processed exactly once.
C1_BatchNotAborted ==
    /\ \A i \in 1..MaxArticles : processed[i] <= 1
    /\ pc # "job" => \A i \in 1..articles : i < idx => processed[i] = 1
    /\ pc = "done" => \A i \in 1..articles : processed[i] = 1

C1_Witness ==
    /\ pc = "done"
    /\ articles >= 2
    /\ result[1] = None
    /\ result[2] = "news"

\* C2 (as claimed): when the INSERT of one article's record fails, only that
\* record is lost; the records of the other articles that succeeded are in
\* the table after the job.
C2_PerItemCommit ==
    (pc = "done" /\ insert_failed # 0) =>
        \A i \in 1..articles : (result[i] = "news" /\ i # insert_failed) => HasRow(i)

\* C3: a News record exists only for an article all of whose stages
\* succeeded: every record added to the session or committed belongs to an
\* article without a failed stage and carries a real image and video path,
\* process_article returns the record only with text, image, video (and
\* audio when the mode needs it) done, and after the batch no article with
\* a failed stage has a row.
C3_RecordOnlyOnFullSuccess ==
    /\ \A k \in 1..Len(pending) :
         /\ ~anyFail[pending[k].article]
         /\ pending[k].image_path = Path
         /\ pending[k].video_path = Path
    /\ \A r \in db : ~anyFail[r.article] /\ r.image_path = Path /\ r.video_path = Path
    /\ pc = "ret_news" =>
         /\ res["text"] = "ok" /\ res["image"] = "ok" /\ res["video"] = "ok"
         /\ NeedsAudioFile(service, use_tts) => res["audio"] = "ok"
    /\ pc = "done" => \A i \in 1..articles : anyFail[i] => ~HasRow(i)

C3_Witness ==
    /\ pc = "done"
    /\ articles = 2
    /\ HasRow(1)
    /\ res["image"] = "fail"
    /\ res["video"] = "fail"
    /\ result[2] = None
    /\ ~HasRow(2)

\* C4 (as claimed): once character image generation has failed for the
\* article, no audio synthesis, no video generation and no insert is
\* performed for it.
C4_ImageFailureAborts ==
    res["image"] = "fail" =>
        /\ calls.tts = 0
        /\ calls.vid = 0
        /\ \A k \in 1..Len(stages) : stages[k] \notin {"audio", "video", "insert"}

Rank(stage) ==
    CASE stage = "text" -> 1
      [] stage = "audio" -> 2
      [] stage = "image" -> 3
      [] stage = "video" -> 4
      [] stage = "insert" -> 5

\* C5 (as claimed): the stages of an item start in the order text, audio,
\* image, video, insert, and a stage starts only after the stage before it
\* succeeded.
C5_StageOrder ==
    /\ \A j, k \in 1..Len(stages) : j < k => Rank(stages[j]) < Rank(stages[k])
    /\ \A k \in 2..Len(stages) : res[stages[k - 1]] = "ok"

\* C6: when no status check observes a terminal state, the wait ends with
\* the timeout outcome after exactly max_attempts status checks, failed
\* checks included; a wait never makes more than max_attempts checks.
C6_TimeoutAfterMaxAttempts ==
    /\ polls <= max_attempts
    /\ Waiting => polls = attempt
    /\ (WaitEnded /\ SawNoTerminal) => (w_end = "timeout" /\ w_result = None)
    /\ w_end = "timeout" => polls = max_attempts

C6_Witness ==
    /\ w_end = "timeout"
    /\ max_attempts >= 2
    /\ polls >= 2
    /\ FailedCheck

\* C7: when a status check of wait_for_task observes FAILED on attempt k,
\* the wait has ended with failure, exactly k checks were made and the
\* task's outputs were not fetched.
C7_FailedEndsAtOnce ==
    SawFailed =>
        /\ ~Waiting
        /\ w_end = "failed"
        /\ w_result = None
        /\ polls = attempt + 1
        /\ outputs_fetched = 0

C7_Witness ==
    /\ SawFailed
    /\ w_end = "failed"
    /\ polls = 2

\* C8 (as claimed): when a status check of wait_for_task observes SUCCESS,
\* wait_for_task returns a non-null result.
C8_SuccessReturnsNonNull ==
    SawSuccess => (WaitEnded /\ w_result # None)

\* C8 (amended): on SUCCESS the outputs are fetched once; wait_for_task
\* returns the first entry of the output list when the fetch yields a
\* non-empty list, and None when the fetch fails or the list is empty.
C8_SuccessReturnsFirstOutput ==
    SawSuccess =>
        /\ WaitEnded
        /\ polls = attempt + 1
        /\ outputs_fetched = 1
        /\ w_outputs # <<>> => (w_end = "success" /\ w_result = w_outputs[1])
        /\ w_outputs = <<>> => (w_end = "no_outputs" /\ w_result = None)

C8_Witness ==
    /\ SawSuccess
    /\ polls = 2
    /\ Len(w_outputs) = 2
    /\ w_outputs[1] # w_outputs[2]
    /\ w_result = w_outputs[1]

\* C9: a failed status check (network error, unparsable or non-200 answer)
\* never ends the wait with failure, for both backends: after it the loop
\* is at the next attempt, and the wait can only end there by timeout,
\* which needs the attempts to be used up.
C9_FailedCheckSwallowed ==
    FailedCheck =>
        /\ w_end \in {"pending", "timeout"}
        /\ polls = attempt
        /\ w_end = "timeout" => attempt >= max_attempts
        /\ w_end = "pending" => Waiting

C9_Witness ==
    /\ FailedCheck
    /\ Waiting
    /\ w_backend = "rh"
    /\ attempt = 1
    /\ max_attempts >= 2

\* C10: within one run of process_article each external generation call
\* (LLM text, TTS, image generation or submission, video submission) and
\* the fetch of a task's outputs is made at most once; only the status
\* check is repeated.
C10_AtMostOneGenerationCall ==
    /\ calls.llm <= 1
    /\ calls.tts <= 1
    /\ calls.img <= 1
    /\ calls.vid <= 1
    /\ outputs_fetched <= 1
    /\ \A s \in Stages : Cardinality({k \in 1..Len(stages) : stages[k] = s}) <= 1

C10_Witness ==
    /\ pc = "ret_news"
    /\ calls = [llm |-> 1, tts |-> 1, img |-> 1, vid |-> 1]
    /\ polls >= 2

\* D-ID is the video backend and text-to-speech mode is selected.
TtsMode == service = "did" /\ use_tts
PastAudioStage == pc \in {"video", "vid_wait", "vid_finish", "insert", "ret_news"}

\* C11: the audio stage is skipped exactly when the video backend is D-ID
\* and text-to-speech mode is selected; the video is then requested with
\* (text, voice_id) and no audio file exists; in every other configuration
\* the audio file is generated and the video is requested with it.
C11_AudioSkippedExactlyInTtsMode ==
    /\ PastAudioStage => (TtsMode <=> audio_path = None)
    /\ PastAudioStage => (TtsMode <=> calls.tts = 0)
    /\ video_request = "text" =>
         /\ TtsMode
         /\ audio_path = None
         /\ res["audio"] = "none"
    /\ video_request = "audio" =>
         /\ ~TtsMode
         /\ audio_path = Path
         /\ res["audio"] = "ok"
    /\ video_request # None => (video_request = "text" <=> TtsMode)

C11_Witness ==
    /\ pc = "ret_news"
    /\ video_request = "text"
    /\ audio_path = None
    /\ res["video"] = "ok"

\* C19 (as claimed): a segment is accepted (a News record is made from it)
\* only if its vocab list has exactly 3 entries and its emotion is one of
\* the six allowed values.
C19_SegmentValidated ==
    pc = "ret_news" => (Len(seg_vocab) = VocabSlots /\ seg_emotion \in Emotions)

\* C19 (amended): a segment whose vocab list has fewer than 3 entries is
\* rejected before audio and video generation and produces no News record;
\* every segment that reaches those stages or yields a record has at least
\* 3 vocab entries.
C19_ShortVocabRejected ==
    /\ PastAudioStage => Len(seg_vocab) >= VocabSlots
    /\ (res["text"] = "ok" /\ Len(seg_vocab) < VocabSlots) =>
         /\ calls.tts = 0
         /\ calls.vid = 0
         /\ \A k \in 1..Len(pending) : pending[k].article # idx

C19_Witness ==
    /\ pc = "ret_none"
    /\ res["image"] = "ok"
    /\ Len(seg_vocab) = 2
    /\ res["text"] = "fail"

RecordsOf(i) == {k \in 1..Len(pending) : pending[k].article = i}

DeleteOf(present) ==
    /\ api_req.op = "delete_news"
    /\ (api_req.news_id \in rows_before) = present

\* C12: DELETE /news/{id} for an id that is not in the news table answers 404
\* (not found), and no row of the table is changed.
C12_DeleteMissingIs404 ==
    DeleteOf(FALSE) => (api_status = "404" /\ news_rows = rows_before)

\* C13: GET /story/scenes/date/{date} answers 404 when the stories table has
\* no story of that date, with latest_only true and with latest_only false
\* (the database itself working).
C13_NoStoryIs404 ==
    ( /\ api_req.op = "get_scenes_by_date"
      /\ api_req.db_ok
      /\ ~\E s \in story_rows : s.date = api_req.date )
        => api_status = "404"

\* N clamped to [1, LimitCap].
ClampedLimit(n) == IF n < 1 THEN 1 ELSE Min(n, LimitCap)

\* C14: GET /news/?limit=N answers with the first clamp(N, 1, 20) records in
\* the order of creation time descending, for every integer N (0 and
\* negative N included) and with N = 20 when it is omitted; so never with
\* more than 20 records.
C14_LimitClamped ==
    (api_req.op = "get_news" /\ api_req.db_ok)
        => /\ Len(api_items) <= LimitCap
           /\ api_items = SubSeq(OrderByCreatedAtDesc(rows_before), 1,
                                 Min(ClampedLimit(api_req.limit),
                                     Cardinality(rows_before)))

ScenesReturned ==
    \/ st_pc = "scenes" /\ scene_i > NumScenes
    \/ st_pc \in {"insert_story", "insert_scene"}
    \/ save_result # "none"

ImageOk(i) == img_res[i] = "ok"

\* C16: a failed scene image skips only its scene: the scenes are attempted
\* in the order 1, 2, 3, 4, all four of them whatever failed before, and
\* scene_images holds exactly the images of the scenes that succeeded, in
\* scene order.
C16_SceneFailureSkipsOnlyThatScene ==
    /\ st_pc = "scenes" => attempted = [k \in 1..(scene_i - 1) |-> k]
    /\ ScenesReturned => attempted = [k \in 1..NumScenes |-> k]
    /\ scene_images = SelectSeq(attempted, ImageOk)

C16_Witness ==
    /\ ScenesReturned
    /\ img_res[1] = "ok"
    /\ img_res[2] = "fail"
    /\ img_res[3] = "ok"
    /\ scene_images = <<1, 3>>

\* The rows of the current save_story_to_db call that are committed.
CallStoryCommitted == [id |-> story_id] \in stories
SaveEnded == save_result \in {"returned", "raised"}

\* C17: save_story_to_db persists the story and its scenes as one unit:
\* while it runs none of its rows is committed, and once it has returned or
\* raised either the story row and every scene row it inserted are
\* committed or none of them is; when it returns they all are.
C17_StoryAndScenesAtomic ==
    /\ st_pc \in {"insert_story", "insert_scene"}
          => (~CallStoryCommitted /\ call_scenes \cap scenes = {})
    /\ SaveEnded
          => /\ \/ CallStoryCommitted /\ call_scenes \subseteq scenes
                \/ ~CallStoryCommitted /\ call_scenes \cap scenes = {}
             /\ tx_stories = {} /\ tx_scenes = {}
    /\ save_result = "returned"
          => (CallStoryCommitted /\ call_scenes \subseteq scenes)

C17_Witness ==
    /\ save_result = "raised"
    /\ Cardinality(call_scenes) >= 2
    /\ ~CallStoryCommitted
    /\ call_scenes \cap scenes = {}
    /\ stories # {}

ScenesOf(sid) == {r \in scenes \cup tx_scenes : r.story_id = sid}

\* C18: the scene rows of every persisted story have pairwise distinct
\* scene numbers, each in 1..4 (so a story has at most 4 scenes), and every
\* scene row references the story row inserted by the same call.
C18_SceneRowsWellFormed ==
    /\ \A r \in scenes : r.scene_number \in SceneNumbers /\ [id |-> r.story_id] \in stories
    /\ \A s \in stories :
          /\ \A r1, r2 \in ScenesOf(s.id) : r1.id # r2.id => r1.scene_number # r2.scene_number
          /\ Cardinality(ScenesOf(s.id)) <= NumScenes
    /\ \A r \in call_scenes : r.story_id = story_id
    /\ st_pc = "insert_scene" => ([id |-> story_id] \in tx_stories \ stories)

C18_Witness ==
    /\ save_result = "returned"
    /\ story_id = 2
    /\ Cardinality(ScenesOf(2) \cap scenes) >= 3
    /\ Cardinality(ScenesOf(1) \cap scenes) = NumScenes

\* ---- claims about content generation ----------------------------------------
\* The LLM answered and its answer is not valid JSON after fence stripping.
BadAnswer == fn_ret.stage # "start" /\ fn_ret.cleaned = JSONDecodeError

\* C21 (as claimed): an answer that is not valid JSON after fence stripping
\* leaves the caller without content, for the news pipeline and for the
\* story generator, so no record is persisted from it.
C21_BadAnswerPersistsNothing ==
    BadAnswer => (fn_ret.content = "none" /\ fn_ret.records = {})

\* C21 (amended): in the news pipeline an answer that is not valid JSON after
\* fence stripping gives no content and no News record; in the story
\* generator it gives the stand-in story, and whatever is persisted from that
\* answer is made from the stand-in.  Valid JSON is never replaced.
C21_BadAnswerNewsFailsStoryFallsBack ==
    /\ (BadAnswer /\ fn_args.caller = "news")
          => (fn_ret.content = "none" /\ fn_ret.records = {})
    /\ (BadAnswer /\ fn_args.caller = "story")
          => /\ fn_ret.content = "fallback"
             /\ \A r \in fn_ret.records : r.from = "fallback"
    /\ fn_ret.content = "fallback" => BadAnswer

C21_Witness ==
    /\ BadAnswer
    /\ fn_args.caller = "story"
    /\ fn_ret.records = {[of |-> "story", from |-> "fallback"]}

\* A JSON text between an opening fence (with or without the word json) and
\* a closing fence, with optional whitespace before and after the fences.
Fenced(t) ==
    {pre \o open \o t \o <<Fence>> \o post :
        pre \in {<<>>, <<Ws>>}, open \in {<<Fence>>, <<Fence, JsonTag>>},
        post \in {<<>>, <<Ws>>}}

\* C22: clean_json_response returns the parse of t for every JSON text t, and
\* the same parsed object for t wrapped in fences, also when whitespace
\* precedes the opening fence or follows the closing fence.
C22_FenceInsensitive ==
    (fn_ret.stage # "start" /\ fn_ret.cleaned # NotCalled)
        => \A t \in {<<JsonBody>>, <<Ws, JsonBody>>} :
              fn_args.text \in ({t} \cup Fenced(t)) => fn_ret.cleaned = Parsed

\* ---- claims about voice selection ---------------------------------------------
\* The catalog has a voice of the requested gender, letter case ignored.
CatalogHas(gender) ==
    /\ gender # None
    /\ \E v \in Voices : v.gender \in {gender, Lower(gender)}

\* C23: get_random_voice(gender) returns, whatever the random choice, a voice
\* of the requested gender (letter case ignored) when the catalog has one;
\* for a gender without a match and for None it returns a voice of the
\* catalog, of either gender.
C23_VoiceMatchesGender ==
    \A k \in 1..Len(fn_ret.picks) :
        /\ fn_ret.picks[k] \in Voices
        /\ CatalogHas(fn_args.gender) => fn_ret.picks[k].gender = Lower(fn_args.gender)

C23_Witness ==
    /\ fn_args.gender = "FEMALE"
    /\ Len(fn_ret.picks) = 2
    /\ fn_ret.picks[1].id = "Alice"
    /\ fn_ret.picks[2].id = "Lily"

\* ---- claims about generate_audio -----------------------------------------------
\* generate_audio returned a path.
AudioWritten == fn_ret.called /\ fn_ret.returned # <<>>

\* The bytes of a response in the order they arrive.
RECURSIVE BytesInOrder(_, _)
BytesInOrder(chunks, k) ==
    IF k > Len(chunks) THEN <<>> ELSE chunks[k] \o BytesInOrder(chunks, k + 1)

\* C24: when generate_audio succeeds it has written one file, the file holds
\* the chunks of a chunked response concatenated in order (the buffer itself
\* for a single-buffer response), and the path it returns is the path of
\* that file.
C24_FileIsConcatenation ==
    AudioWritten
        => /\ fn_ret.files = {[path |-> fn_ret.returned,
                               content |-> BytesInOrder(fn_args.response.chunks, 1)]}
           /\ fn_args.response.kind # "error"

C24_Witness ==
    /\ AudioWritten
    /\ fn_args.response.kind = "chunks"
    /\ fn_args.response.chunks = << <<"a", "b">>, <<"b", "a">> >>
    /\ \E f \in fn_ret.files : f.content = <<"a", "b", "b", "a">>

\* ---- claims about the artifacts of news items ----------------------------------
\* The path lies in {base}/{kind}/{YYYYMMDD}/ with the date of its timestamp.
DatePartitioned(path) == path.dir = DatePart(path.stamp)

\* C25: every artifact written for a news item (text, audio, image, video)
\* lies in the date directory {base}/{kind}/{YYYYMMDD}/ of the item's
\* timestamp, and so does every path recorded in a News record.
C25_ArtifactsDatePartitioned ==
    /\ \A w \in fn_ret.writes : DatePartitioned(w.path)
    /\ \A r \in fn_ret.records :
          /\ DatePartitioned(r.audio_path)
          /\ DatePartitioned(r.image_path)
          /\ DatePartitioned(r.video_path)

\* C26: two distinct work items never write to the same path, also when both
\* start within the same clock second.
C26_NoSharedPath ==
    \A w1, w2 \in fn_ret.writes : w1.item # w2.item => w1.path # w2.path

\* ------------------------------------------------------------------------
\* C27, C29: the remote calls of one generation
\* ------------------------------------------------------------------------
Called(name) == \E i \in 1..Len(fn_ret.calls) : fn_ret.calls[i] = name

TaskFollowUp == Called("rh.get_task_status") \/ Called("rh.download")

CreateAccepted(r) == r.http = "200" /\ r.code = 0 /\ r.data = "task"

\* C27: create_task yields a task exactly when the answer is HTTP 200 with
\* code 0 and a task id; when it yields nothing the caller returns None and
\* neither polls the task nor downloads an output.
C27_TaskOnlyOnAcceptedCreate ==
    (fn_ret.fn = "remote" /\ Called("rh.create_task")) =>
        /\ (fn_ret.task # None) <=> CreateAccepted(fn_ret.created)
        /\ fn_ret.task = None =>
              fn_ret.pc = "done" /\ fn_ret.returned = None /\ ~TaskFollowUp

\* A create answered with HTTP 200 and a task id but a non-zero code, after
\* which the caller has returned.
C27_Witness ==
    /\ fn_ret.fn = "remote"
    /\ Called("rh.create_task")
    /\ fn_ret.created.http = "200"
    /\ fn_ret.created.code # 0
    /\ fn_ret.created.data = "task"
    /\ fn_ret.pc = "done"

NoTalkInput ==
    fn_args.audio_path = None /\ (fn_args.text = None \/ fn_args.voice_id = None)

\* C29: a D-ID call with neither an audio_path nor both text and voice_id
\* returns None with no request sent, through the dispatcher and through
\* DIDService.generate_video alike; a RunningHub call through the dispatcher
\* without an audio_path returns None with no request sent.
C29_NoInputNoRemoteCall ==
    (/\ fn_ret.fn = "remote"
     /\ fn_args.entry \in {"generate_video", "DIDService.generate_video"}
     /\ \/ fn_args.service = "did" /\ NoTalkInput
        \/ fn_args.service = "runninghub" /\ fn_args.audio_path = None)
    => /\ fn_ret.calls = <<>>
       /\ fn_ret.pc \in {"dispatch", "did_validate", "done"}
       /\ fn_ret.pc = "done" => fn_ret.returned = None

\* DIDService.generate_video called with a text but no voice_id and no
\* audio_path has returned.
C29_Witness ==
    /\ fn_ret.fn = "remote"
    /\ fn_args.entry = "DIDService.generate_video"
    /\ fn_args.audio_path = None
    /\ fn_args.text # None
    /\ fn_args.voice_id = None
    /\ fn_ret.pc = "done"
    /\ fn_ret.returned = None

\* ------------------------------------------------------------------------
\* C28: the value generate_character_image returns
\* ------------------------------------------------------------------------
PathPromptTuple == "PathPromptTuple"   \* the tuple (image_path, prompt)

\* C28: generate_character_image returns the pair (image_path, prompt) when
\* the image was generated and the pair (None, None) when it was not, with
\* either image backend.
C28_ImageResultIsPair ==
    pc = "image_check" =>
        image_path = (IF res["image"] = "ok" THEN PathPromptTuple ELSE NoneTuple)

\* ------------------------------------------------------------------------
\* C30: a story whose narration audio could not be generated
\* ------------------------------------------------------------------------
NoNarration ==
    \A i \in SceneNumbers : img_res[i] = "ok" /\ aud_res[i] = "fail"

\* C30: when every scene's image is generated and every scene's audio fails
\* (no text-to-speech key), the audio is skipped and the story is still
\* saved: the orchestrator goes on to save_story_to_db instead of giving up.
C30_StorySavedWithoutAudio ==
    (NoNarration /\ st_pc # "scenes") => save_result # "skipped"

\* ------------------------------------------------------------------------
\* C31: the report of a job run
\* ------------------------------------------------------------------------
\* main.py:1026-1027  the report is printed after session.commit() returned.
Reported == pc = "done" /\ insert_failed = 0

\* C31: when a job run reports "n out of m", n is the number of News
\* records the run committed, m the number of articles fetched, and
\* 0 <= n <= m.
C31_ReportCountsCommitted ==
    Reported =>
        /\ successful_articles = Cardinality(db)
        /\ successful_articles = Cardinality({i \in 1..articles : HasRow(i)})
        /\ 0 <= successful_articles
        /\ successful_articles <= articles

\* A reported run of two articles of which exactly one yielded a record.
C31_Witness ==
    /\ Reported
    /\ articles = 2
    /\ successful_articles = 1
    /\ result[1] = None
    /\ Cardinality(db) = 1

\* ------------------------------------------------------------------------
\* C32: check_folders_exist as a probe
\* ------------------------------------------------------------------------
AllHaveContent ==
    \A k \in 1..Len(RequiredFolders) : fn_args.folders[k] = "content"

\* C32: check_folders_exist returns True if the four folders of the date
\* all exist and have content, and False otherwise.
C32_TrueIffFoldersHaveContent ==
    (fn_ret.fn = "check_folders_exist" /\ fn_ret.called) =>
        (fn_ret.returned <=> AllHaveContent)

\* ------------------------------------------------------------------------
\* C33: the URL of a stored path
\* ------------------------------------------------------------------------
HasSep(chars) == \E i \in 1..Len(chars) : chars[i] = Sep

FirstSep(chars) ==
    CHOOSE i \in 1..Len(chars) : chars[i] = Sep /\ \A j \in 1..(i - 1) : chars[j] # Sep

\* What is left of a path when its first segment (everything up to and
\* including the first separator) is taken away.
AfterFirstSegment(chars) ==
    IF HasSep(chars) THEN SubSeq(chars, FirstSep(chars) + 1, Len(chars)) ELSE <<>>

\* C33: get_file_url maps a non-empty path to the static base URL followed
\* by the path without its first segment, the rest unchanged and in order,
\* and an absent or empty path to None.
C33_UrlDropsFirstSegment ==
    (fn_ret.fn = "get_file_url" /\ fn_ret.called) =>
        LET p == fn_args.file_path IN
        IF ~p.given \/ p.chars = <<>>
        THEN fn_ret.url = UrlNone
        ELSE /\ ~fn_ret.url.isNone
             /\ fn_ret.url.base = StaticBase
             /\ fn_ret.url.rest = AfterFirstSegment(p.chars)

\* The URL of the path a/b/ has been computed.
C33_Witness ==
    /\ fn_ret.fn = "get_file_url"
    /\ fn_ret.called
    /\ fn_args.file_path.given
    /\ fn_args.file_path.chars = <<"a", "/", "b", "/">>
    /\ fn_ret.url.rest = <<"b", "/">>

\* ------------------------------------------------------------------------
\* C34, C39: the steps of a video generation
\* ------------------------------------------------------------------------
TalkCall ==
    /\ fn_ret.fn = "remote"
    /\ fn_args.service = "did"
    /\ fn_args.entry \in {"generate_video", "DIDService.generate_video"}

\* The requests of a complete D-ID generation, in order.
TalkSteps ==
    <<"did.upload_image">> \o
    (IF fn_args.audio_path # None THEN <<"did.upload_audio">> ELSE <<>>) \o
    <<"did.create_talk", "did.get_talk_status", "did.download_video">>

IsPrefix(s, t) == Len(s) <= Len(t) /\ s = SubSeq(t, 1, Len(s))

TalkStepsOrdered ==
    TalkCall =>
        /\ IsPrefix(fn_ret.calls, TalkSteps)
        /\ fn_args.audio_path = None => ~Called("did.upload_audio")
        /\ fn_ret.returned = Path =>
              /\ fn_ret.calls = TalkSteps
              /\ fn_ret.download = "200"
        /\ (fn_ret.pc = "done" /\ fn_ret.calls # TalkSteps) => fn_ret.returned = None

\* C34: DIDService.generate_video uploads the image, uploads the audio only
\* when an audio_path is given (never in text and voice mode), creates the
\* talk, polls its status and downloads the result, in this order; once a
\* step has failed the call has ended with None and no further request is
\* sent; the output path is returned only after a download answered 200.
C34_TalkStepsInOrder ==
    /\ []TalkStepsOrdered
    /\ [][(TalkCall /\ fn_ret.returned = None) => fn_ret' = fn_ret]_vars

\* A text and voice call whose talk was created and whose polling failed.
C34_Witness ==
    /\ TalkCall
    /\ fn_args.audio_path = None
    /\ fn_ret.calls = <<"did.upload_image", "did.create_talk", "did.get_talk_status">>
    /\ fn_ret.pc = "done"
    /\ fn_ret.returned = None

TaskVideoCall ==
    /\ fn_ret.fn = "remote"
    /\ fn_args.service = "runninghub"
    /\ fn_args.entry = "generate_video"

\* C39: RunningHubService.generate_video creates a task only after both the
\* audio upload and the image upload succeeded; when either upload failed
\* the call returns None with no task created, no status polled and nothing
\* downloaded; the output path is returned only after a download answered
\* 200.
C39_TaskOnlyAfterBothUploads ==
    TaskVideoCall =>
        /\ Called("rh.create_task") => UploadsOk(fn_ret.uploaded)
        /\ ("fail" \in {fn_ret.uploaded.audio, fn_ret.uploaded.image}) =>
              /\ fn_ret.pc = "done"
              /\ fn_ret.returned = None
              /\ ~Called("rh.create_task")
              /\ ~TaskFollowUp
        /\ fn_ret.returned = Path =>
              /\ fn_ret.download = "200"
              /\ fn_ret.calls = <<"rh.upload_file(audio)", "rh.upload_file(image)",
                                   "rh.create_task", "rh.get_task_status", "rh.download">>

\* The audio upload succeeded, the image upload failed, the call has ended.
C39_Witness ==
    /\ TaskVideoCall
    /\ fn_ret.uploaded.audio = "ok"
    /\ fn_ret.uploaded.image = "fail"
    /\ fn_ret.pc = "done"

\* ------------------------------------------------------------------------
\* C35, C37: what a status check leads to
\* ------------------------------------------------------------------------
\* The last status check of the D-ID talk came back with this status.
SawTalkStatus(S) ==
    w_backend = "did" /\ lastRaw.http = "200" /\ lastRaw.status \in S

\* C35: in the polling loop of DIDService.generate_video a status of error
\* or rejected ends the call with failure at once; done ends the polling,
\* with a download when a result_url is present and with failure when not;
\* every other status is followed by another check while attempts remain;
\* no more than max_retries status checks are made.
C35_TalkPolling ==
    /\ SawTalkStatus({"error", "rejected"}) =>
          /\ ~Waiting
          /\ w_end = "failed"
          /\ w_result = None
          /\ polls = attempt + 1
    /\ SawTalkStatus({"done"}) =>
          /\ ~Waiting
          /\ polls = attempt + 1
          /\ lastRaw.result_url = None => (w_end = "no_url" /\ w_result = None)
          /\ lastRaw.result_url # None => w_end \in {"success", "download_failed"}
          /\ w_result = Path <=> w_end = "success"
    /\ SawTalkStatus({"started"}) =>
          /\ w_end \in {"pending", "timeout"}
          /\ polls = attempt
          /\ w_end = "pending" => Waiting
          /\ w_end = "timeout" => attempt >= max_attempts
    /\ w_backend = "did" => polls <= max_attempts

\* The second status check of a talk came back rejected.
C35_Witness ==
    /\ SawTalkStatus({"rejected"})
    /\ polls = 2
    /\ w_end = "failed"

\* The last status check of the RunningHub task carried a non-zero code.
SawErrorCode == w_backend = "rh" /\ lastRaw.http = "200" /\ lastRaw.code # 0

SawStillRunning ==
    /\ w_backend = "rh"
    /\ lastRaw.http = "200"
    /\ lastRaw.code = 0
    /\ lastRaw.data \notin {"SUCCESS", "FAILED"}

\* C37: wait_for_task makes no status check after a terminal response:
\* code 0 with SUCCESS, code 0 with FAILED, or any non-zero code (which
\* ends the wait with failure whatever the data says); a further check
\* follows only code 0 with other data and a failed status request.
C37_NoCheckAfterTerminal ==
    /\ (SawSuccess \/ SawFailed \/ SawErrorCode) =>
          /\ ~Waiting
          /\ WaitEnded
          /\ polls = attempt + 1
    /\ SawErrorCode => (w_end = "error" /\ w_result = None)
    /\ (w_backend = "rh" /\ Waiting /\ polls > 0) =>
          /\ SawStillRunning \/ FailedCheck
          /\ polls = attempt

\* The second status check said RUNNING with a non-zero code.
C37_Witness ==
    /\ SawErrorCode
    /\ lastRaw.data = "RUNNING"
    /\ polls = 2
    /\ w_end = "error"

\* ------------------------------------------------------------------------
\* C36: which files a scene row points to
\* ------------------------------------------------------------------------
\* C36: every scene row that save_story_to_db writes with scene_number i
\* holds the image and the audio generated for scene i (no audio when none
\* was generated for it), whatever happened to the other scenes.
C36_SceneRowHoldsOwnFiles ==
    \A r \in call_scenes :
        /\ r.image = r.scene_number
        /\ r.audio = (IF aud_res[r.scene_number] = "ok" THEN r.scene_number ELSE NoAudio)

\* ------------------------------------------------------------------------
\* C38: the voice of a story
\* ------------------------------------------------------------------------
\* C38: the voice_id stored in a story row is the id of the voice that
\* synthesized the narrations of its scenes.
C38_StoredVoiceIsNarrationVoice ==
    (fn_ret.fn = "narration" /\ fn_ret.story_voice_id # NoVoice) =>
        \A n \in fn_ret.narrated : n.voice = fn_ret.story_voice_id

====
